---- MODULE Spec2Model ----
(***************************************************************************)
(* BOSS core: the asyncio event bus (boss/core/event_bus.py) and the app   *)
(* runner (boss/core/app_runner.py), modelled as state machines.           *)
(*                                                                         *)
(* BusSpec  - the bus alone: publish / subscribe / unsubscribe calls made  *)
(*            on the loop, the single consumer task and its handlers.      *)
(* Spec     - the runner: run_app / stop on the loop thread, one worker    *)
(*            thread per run, one threading.Timer per run, and the         *)
(*            lifecycle events they hand to the bus.                       *)
(* ApiSpec, LauncherSpec, BridgeSpec - the app API of a running unit, the  *)
(*            launcher and the hardware event bridge.                      *)
(* ThreadSpec - publish_threadsafe calls of two threads and the loop that  *)
(*            runs them.                                                   *)
(* ScanSpec - the catalog (boss/core/app_manager.py): manifests, the       *)
(*            mappings file, scan_apps and the admin page's assignment.    *)
(* RescanSpec - the catalog with mapping files scan_apps cannot load.      *)
(* MigrateSpec - migrate_manifest_v2 (boss/core/models/manifest.py)        *)
(*            applied to raw descriptors and to its own results.           *)
(***************************************************************************)
EXTENDS Integers, Sequences, FiniteSets, TLC

(***************************************************************************)
(* Bounds                                                                  *)
(***************************************************************************)
\* EventBus(queue_size=...): the capacity K of the asyncio.Queue.
QueueSize == 2
\* Number of publish calls made on the loop in BusSpec.
MaxEvents == 3
\* Number of subscribe calls in BusSpec.
MaxSubs == 2
\* Number of run_app calls that reach the worker start in Spec.
MaxRuns == 2
\* Number of selector changes, of set_led calls and of colour-button presses.
MaxSw == 1
MaxLed == 1
MaxPress == 1
\* Number of edits of the apps directory and the mappings file, and of scan_apps calls.
MaxEdits == 2
MaxScans == 2
\* Number of migrate_manifest_v2 calls made in a row, each on the result of the one before.
MaxMigrations == 2

(***************************************************************************)
(* Values                                                                  *)
(***************************************************************************)
None == "None"

APP_STARTED == "system.app.started"
APP_FINISHED == "system.app.finished"
APP_ERROR == "system.app.error"

BusTypes == {"a", "b"}
EventTypes == BusTypes \cup {APP_STARTED, APP_FINISHED, APP_ERROR}

\* Payloads and filters are dicts: functions from a finite set of keys.
EmptyDict == [k \in {} |-> None]
DictN1 == [k \in {"n"} |-> "1"]
\* filter_dict: <<>> is Python's None, <<d>> is the dict d.
\* The <<type, payload>> pairs published and the <<type, filter_dict>> pairs
\* subscribed in BusSpec: a type with and without the filtered key, and another type.
BusPublished == {<<"a", EmptyDict>>, <<"a", DictN1>>, <<"b", EmptyDict>>}
BusSubscribed == {<<"a", <<>>>>, <<"a", <<DictN1>>>>, <<"b", <<>>>>}

VARIABLES
    \* ---- EventBus ----
    queue,          \* _queue: the events waiting for the consumer, oldest first
    subscriptions,  \* _subscriptions: sub_id -> [event_type, filter_dict]
    type_index,     \* _type_index: event_type -> sequence of sub_ids
    nsubs,          \* number of sub_ids handed out (uuid4: never reused)
    nevents,        \* number of Event objects created
    cpc,            \* consumer task: "get" (awaiting queue.get) or "dispatch"
    cur,            \* <<event>> being dispatched, <<>> when none is
    snap,           \* sub_ids = list(_type_index.get(type, [])) of the dispatch
    idx,            \* number of entries of snap the for loop has gone through
    running,        \* sub_id of the coroutine handler being awaited, 0 if none
    pending,        \* events handed to publish_threadsafe, in call order
    \* ---- history (not program state) ----
    invoked,        \* sub_ids whose handler was called for cur, in call order
    lastEv,         \* sub_id -> id of the latest event its handler was called for
    raisedOn,       \* sub_id -> <<event>> on which its handler raised, <<>> if never
    ndropped,       \* number of events removed by overflow handling
    maxDropped,     \* largest id among them
    dropOk,         \* every removal so far took the head of a full queue
    ndispatched,    \* number of events taken by the consumer
    lastDispatched, \* id of the latest of them
    publishRaised,  \* TRUE once a publish call raised
    \* ---- AppRunner ----
    lpc,            \* loop thread: "idle" or its position inside run_app / stop
    call,           \* arguments of the run_app call in progress: [app, kind]
    top,            \* the latest call made on the loop thread: "run_app" or "stop"
    r_thread,       \* _thread: run id of the current worker, 0 for None
    r_stop_event,   \* _stop_event: run id whose token it is, 0 for the initial Event
    r_app_name,     \* _app_name
    r_timer,        \* _timer: run id whose Timer it is, 0 for None
    nruns,          \* number of runs (tokens) created
    app,            \* run -> unit id
    kind,           \* run -> behaviour of the unit's entry
    wpc,            \* run -> position of the worker thread
    token,          \* run -> whether the cancellation token is set
    tpc,            \* run -> state of the Timer thread
    tcancelled,     \* run -> Timer.cancel() was called (finished event set)
    \* ---- history (not program state) ----
    outcome,        \* run -> how the entry ended: "none", "returned", "raised"
    elapsedAlive,   \* run -> the budget elapsed while the unit was still running
    stopSet,        \* run -> stop() set the token of this run
    result,         \* how the call named by top ended: "none", "returned", "raised"
    \* ---- capability object (app_api.py) ----
    sub_ids,        \* run -> _ScopedEventBus._sub_ids of the run's AppAPI
    owner,          \* history: sub_id -> the run through whose AppAPI it was created
    \* ---- hardware collaborators ----
    switch_val,     \* the selector: what switches.get_value() returns
    display,        \* the numeric display: the last show_number(value)
    screen,         \* the screen: what it shows
    leds,           \* colour -> the LED collaborator's state
    \* ---- AppLauncher ----
    go_sub,         \* the subscription of _on_go_pressed is registered
    go_sv,          \* switch_value of the _on_go_pressed call in progress (0: none)
    \* ---- HardwareEventBridge ----
    led_states,     \* colour -> self._led_states[colour]
    \* ---- environment counters and history ----
    ngo, nsw, nled, npress,  \* go presses, selector changes, set_led calls, button presses
    buslog,         \* the lifecycle events put on the queue, in order
    golog,          \* one entry per go event the consumer took
    restoreAt,      \* run -> what _post_app_cleanup for its terminal event left
    termDropped,    \* run -> its terminal event was removed from a full queue
    presses,        \* one entry per button press callback
    ledSeen,        \* colour -> is_on of the last LED_STATE_CHANGED event the Bridge handled
    \* ---- the files AppManager reads ----
    apps_dir,       \* unit directory name -> its manifest.json (see Descriptors)
    mappings_file,  \* app_mappings.json: [exists, wrapped, entries]
    \* ---- AppManager ----
    manifests,      \* _manifests: unit name -> validated AppManifest
    switch_map,     \* _switch_map: switch value -> unit name
    \* ---- AppRunner.run_app line 89 ----
    timer_budget,   \* <<timeout>> handed to the latest threading.Timer, <<>> before any
    \* ---- history (not program state) ----
    nedits, nscans, \* edits of the files, scan_apps calls
    in_sync,        \* a scan has returned and the files were not edited since
    \* ---- a caller of migrate_manifest_v2 ----
    mig_heap,       \* the dict objects there are: object id -> content (see Manifest)
    mig_res,        \* the ids of the objects the calls made so far returned
    mig_in          \* history: the content of object 1, the caller's dict, when it was built

busVars == <<queue, subscriptions, type_index, nsubs, nevents, cpc, cur, snap, idx,
             running, pending, invoked, lastEv, raisedOn, ndropped, maxDropped, dropOk,
             ndispatched, lastDispatched, publishRaised>>
runnerVars == <<lpc, call, top, r_thread, r_stop_event, r_app_name, r_timer, nruns,
                app, kind, wpc, token, tpc, tcancelled, outcome, elapsedAlive,
                stopSet, result>>
apiVars == <<sub_ids, owner>>
hwVars == <<switch_val, display, screen, leds>>
goVars == <<go_sub, go_sv>>
countVars == <<ngo, nsw, nled, npress>>
logVars == <<buslog, golog, restoreAt, termDropped, presses, ledSeen>>
sysVars == <<hwVars, goVars, led_states, countVars, logVars>>
migVars == <<mig_heap, mig_res, mig_in>>
catVars == <<apps_dir, mappings_file, manifests, switch_map, timer_budget, nedits, nscans,
             in_sync, migVars>>
extVars == <<apiVars, sysVars, catVars>>
vars == <<busVars, runnerVars, extVars>>

subVars == <<subscriptions, type_index, nsubs, running, invoked, lastEv, raisedOn>>
qVars == <<queue, ndropped, maxDropped, dropOk, publishRaised, nevents>>
conVars == <<cpc, cur, snap, idx, ndispatched, lastDispatched>>
loopVars == <<lpc, call, top>>
fieldVars == <<r_thread, r_stop_event, r_app_name, r_timer>>
runVars == <<nruns, app, kind>>
timerVars == <<tpc, tcancelled>>
histVars == <<outcome, elapsedAlive, stopSet, result>>

(***************************************************************************)
(* Helpers                                                                 *)
(***************************************************************************)
Range(s) == {s[i] : i \in 1..Len(s)}
Ids(s) == {s[i].id : i \in 1..Len(s)}
Last(s) == s[Len(s)]
Count(s, x) == Cardinality({i \in 1..Len(s) : s[i] = x})
Max(S) == CHOOSE x \in S : \A y \in S : y <= x
RemoveFirst(s, x) ==
    IF \E i \in 1..Len(s) : s[i] = x
    THEN LET i == CHOOSE j \in 1..Len(s) : s[j] = x /\ \A h \in 1..(j-1) : s[h] # x
         IN SubSeq(s, 1, i-1) \o SubSeq(s, i+1, Len(s))
    ELSE s

\* dict.get(k): None when the key is missing.
Get(d, k) == IF k \in DOMAIN d THEN d[k] ELSE None

\* Event(event_type, payload); id and run identify the object and the run that
\* published it (0: not a run), for the history only.
Event(n, t, p, r) == [id |-> n, type |-> t, payload |-> p, run |-> r]

(***************************************************************************)
(* EventBus                                                                *)
(***************************************************************************)
\* asyncio.Queue.full(): maxsize <= 0 means unbounded.
full(q) == QueueSize > 0 /\ Len(q) >= QueueSize

\* EventBus.publish: put_nowait; on QueueFull get_nowait (QueueEmpty ignored) and
\* put_nowait again, which raises QueueFull when there is still no room.
publish_drop_newest(q, ev) ==
    IF ~full(q) THEN [queue |-> Append(q, ev), raised |-> FALSE]
    ELSE [queue |-> q, raised |-> FALSE]
publish(q, ev) ==
    IF ~full(q) THEN [queue |-> Append(q, ev), raised |-> FALSE]
    ELSE LET q1 == IF q # <<>> THEN Tail(q) ELSE q
         IN IF full(q1) THEN [queue |-> q1, raised |-> TRUE]
            ELSE [queue |-> Append(q1, ev), raised |-> FALSE]

\* EventBus.subscribe on the pair of tables st = [subs, index].
subscribe_front(st, sub_id, t, f) ==
    [subs |-> [s \in DOMAIN st.subs \cup {sub_id} |->
                 IF s = sub_id THEN [event_type |-> t, filter_dict |-> f]
                 ELSE st.subs[s]],
     index |-> [st.index EXCEPT ![t] = <<sub_id>> \o @]]
subscribe(st, sub_id, t, f) ==
    [subs |-> [s \in DOMAIN st.subs \cup {sub_id} |->
                 IF s = sub_id THEN [event_type |-> t, filter_dict |-> f]
                 ELSE st.subs[s]],
     index |-> [st.index EXCEPT ![t] = Append(@, sub_id)]]

\* EventBus.unsubscribe.
unsubscribe_noop(st, sub_id) == st
unsubscribe(st, sub_id) ==
    IF sub_id \notin DOMAIN st.subs THEN st
    ELSE LET t == st.subs[sub_id].event_type
         IN [subs |-> [s \in DOMAIN st.subs \ {sub_id} |-> st.subs[s]],
             index |-> [st.index EXCEPT ![t] = RemoveFirst(@, sub_id)]]

\* EventBus._matches_filter.
matches_filter_ignore(ev, fd) == TRUE
matches_filter(ev, fd) ==
    \/ fd = <<>>
    \/ \A k \in DOMAIN fd[1] : Get(ev.payload, k) = fd[1][k]

\* The except branch of _dispatch: the handler raised.
handler_raised_keep(st, sub_id) == st
handler_raised(st, sub_id) == unsubscribe(st, sub_id)

\* The for loop of _dispatch moves on to the next sub_id, also after an exception.
dispatch_abort(i, n, raised) == IF raised THEN n ELSE i + 1
dispatch_next(i, n, raised) == i + 1

\* The list the for loop of _dispatch walks: sub_ids, the copy of the type's list
\* made at line 155, whatever has become of the list itself since.
for_sub_ids_live(copy, live) == live
for_sub_ids(copy, live) == copy

Tables == [subs |-> subscriptions, index |-> type_index]

\* One publish call's effect on the queue and on the history.
DoPublish(ev) ==
    LET res == publish(queue, ev)
        gone == (Ids(queue) \cup {ev.id}) \ Ids(res.queue)
    IN /\ queue' = res.queue
       /\ publishRaised' = (publishRaised \/ res.raised)
       /\ ndropped' = ndropped + Cardinality(gone)
       /\ maxDropped' = IF gone = {} THEN maxDropped ELSE Max(gone \cup {maxDropped})
       /\ dropOk' = (dropOk /\ (gone # {} => Len(queue) = QueueSize /\ gone = {Head(queue).id}))

NoteRaise(s, raised) ==
    raisedOn' = IF raised /\ raisedOn[s] = <<>> THEN [raisedOn EXCEPT ![s] = cur] ELSE raisedOn

\* bus.subscribe(...) called on the loop.
BusSubscribe(t, f) ==
    /\ lpc = "idle"
    /\ nsubs < MaxSubs
    /\ LET st == subscribe(Tables, nsubs + 1, t, f)
       IN /\ subscriptions' = st.subs
          /\ type_index' = st.index
    /\ nsubs' = nsubs + 1
    /\ UNCHANGED <<extVars, running, invoked, lastEv, raisedOn, qVars, conVars, pending, runnerVars>>

\* bus.unsubscribe(sub_id) called on the loop; sub_id 0 is an id never handed out.
BusUnsubscribe(sub_id) ==
    /\ lpc = "idle"
    /\ LET st == unsubscribe(Tables, sub_id)
       IN /\ subscriptions' = st.subs
          /\ type_index' = st.index
    /\ UNCHANGED <<extVars, nsubs, running, invoked, lastEv, raisedOn, qVars, conVars, pending,
                   runnerVars>>

\* await bus.publish(type, payload) called on the loop.
BusPublish(t, p) ==
    /\ lpc = "idle"
    /\ nevents < MaxEvents
    /\ DoPublish(Event(nevents + 1, t, p, 0))
    /\ nevents' = nevents + 1
    /\ UNCHANGED <<extVars, subVars, conVars, pending, runnerVars>>

\* _consume: event = await queue.get(), then _dispatch takes its snapshot of the
\* sub_ids; with no sub_id the for loop ends at once and the task is back at get.
ConsumerGet ==
    /\ lpc = "idle"
    /\ cpc = "get"
    /\ queue # <<>>
    /\ queue' = Tail(queue)
    /\ ndispatched' = ndispatched + 1
    /\ lastDispatched' = Head(queue).id
    /\ idx' = 0
    /\ IF type_index[Head(queue).type] = <<>>
       THEN cpc' = "get" /\ cur' = <<>> /\ snap' = <<>>
       ELSE cpc' = "dispatch" /\ cur' = <<Head(queue)>>
            /\ snap' = type_index[Head(queue).type]
    /\ UNCHANGED <<extVars, subVars, ndropped, maxDropped, dropOk, publishRaised, nevents,
                   pending, runnerVars>>

\* One iteration of the for loop of _dispatch over sub_id = snap[idx+1]: the
\* subscription is gone or filtered out (continue), or its handler is called.  The
\* call returns a coroutine, which is then awaited (HandlerEnd), or it is a plain
\* call that returns or raises on the spot (asyncio.iscoroutine(result)).
DispatchStep ==
    /\ lpc = "idle"
    /\ cpc = "dispatch"
    /\ running = 0
    /\ idx < Len(for_sub_ids(snap, type_index[cur[1].type]))
    /\ LET s == for_sub_ids(snap, type_index[cur[1].type])[idx + 1]
           invoke == /\ s \in DOMAIN subscriptions
                     /\ matches_filter(cur[1], subscriptions[s].filter_dict)
       IN IF ~invoke
          THEN /\ idx' = idx + 1
               /\ UNCHANGED <<subscriptions, type_index, running, invoked, lastEv, raisedOn>>
          ELSE /\ invoked' = Append(invoked, s)
               /\ lastEv' = [lastEv EXCEPT ![s] = cur[1].id]
               /\ \E is_coroutine \in BOOLEAN :
                  IF is_coroutine
                  THEN /\ running' = s
                       /\ UNCHANGED <<subscriptions, type_index, raisedOn, idx>>
                  ELSE \E raised \in BOOLEAN :
                         LET st == IF raised THEN handler_raised(Tables, s) ELSE Tables
                         IN /\ subscriptions' = st.subs
                            /\ type_index' = st.index
                            /\ NoteRaise(s, raised)
                            /\ idx' = dispatch_next(idx, Len(snap), raised)
                            /\ running' = 0
    /\ UNCHANGED <<extVars, nsubs, qVars, cpc, cur, snap, ndispatched, lastDispatched, pending,
                   runnerVars>>

\* The awaited coroutine handler completes: it returned or it raised.
HandlerEnd ==
    /\ lpc = "idle"
    /\ running # 0
    /\ \E raised \in BOOLEAN :
         LET st == IF raised THEN handler_raised(Tables, running) ELSE Tables
         IN /\ subscriptions' = st.subs
            /\ type_index' = st.index
            /\ NoteRaise(running, raised)
            /\ idx' = dispatch_next(idx, Len(snap), raised)
    /\ running' = 0
    /\ UNCHANGED <<extVars, nsubs, invoked, lastEv, qVars, cpc, cur, snap, ndispatched,
                   lastDispatched, pending, runnerVars>>

\* The for loop of _dispatch is exhausted: _dispatch returns to the while loop of
\* _consume, which awaits queue.get() again.
DispatchReturn ==
    /\ lpc = "idle"
    /\ cpc = "dispatch"
    /\ running = 0
    /\ idx >= Len(for_sub_ids(snap, type_index[cur[1].type]))
    /\ cpc' = "get"
    /\ cur' = <<>>
    /\ snap' = <<>>
    /\ idx' = 0
    /\ invoked' = <<>>
    /\ UNCHANGED <<extVars, subscriptions, type_index, nsubs, running, lastEv, raisedOn, qVars,
                   ndispatched, lastDispatched, pending, runnerVars>>

(***************************************************************************)
(* AppManager: manifests, the mappings file and what scan_apps makes of them *)
(***************************************************************************)
\* The subdirectories of apps/, in the order of sorted(self._apps_dir.iterdir()).
UnitDirs == <<"A", "B">>

\* A manifest.json: json is "none" (no directory or no manifest.json in it),
\* "garbage" (json.loads raises) or "object"; of an object, timeout is <<>> when
\* the key timeout_seconds is missing and <<n>> when present, n in tenths of a
\* second (5 is the JSON number 0.5); behavior is the value of timeout_behavior
\* ("return" also stands for a missing key); extra is "" or the name of one more
\* top-level key.
Manifest(t, b, x) == [json |-> "object", timeout |-> t, behavior |-> b, extra |-> x]
NoManifest == [json |-> "none", timeout |-> <<>>, behavior |-> "return", extra |-> ""]
Garbage == [json |-> "garbage", timeout |-> <<>>, behavior |-> "return", extra |-> ""]
Descriptors ==
    {NoManifest, Garbage,
     Manifest(<<>>, "return", ""), Manifest(<<10>>, "return", ""),
     Manifest(<<0>>, "return", ""), Manifest(<<5>>, "return", ""),
     Manifest(<<-10>>, "return", ""), Manifest(<<0>>, "none", ""),
     Manifest(<<20>>, "return", "surprise"), Manifest(<<20>>, "rerun", "external_apis")}

\* Keys of a JSON object are strings: sequences of characters.
DigitValue == [c \in {"0", "1", "2", "3", "4", "5", "6", "7", "8", "9"} |->
                 CASE c = "0" -> 0 [] c = "1" -> 1 [] c = "2" -> 2 [] c = "3" -> 3
                   [] c = "4" -> 4 [] c = "5" -> 5 [] c = "6" -> 6 [] c = "7" -> 7
                   [] c = "8" -> 8 [] c = "9" -> 9]
DigitChar == <<"0", "1", "2", "3", "4", "5", "6", "7", "8", "9">>

RECURSIVE digits_value(_, _)
digits_value(cs, acc) ==
    IF cs = <<>> THEN acc ELSE digits_value(Tail(cs), 10 * acc + DigitValue[Head(cs)])

\* int(key) of a str: an optional sign and decimal digits give <<n>>; anything
\* else raises ValueError, <<>>.  (The keys of MapKeys have no surrounding
\* whitespace and no underscores, which int() would also accept.)
py_int(key) ==
    LET signed == key # <<>> /\ key[1] \in {"-", "+"}
        body == IF signed THEN Tail(key) ELSE key
    IN IF body # <<>> /\ \A i \in 1..Len(body) : body[i] \in DOMAIN DigitValue
       THEN <<(IF signed /\ key[1] = "-" THEN -1 ELSE 1) * digits_value(body, 0)>>
       ELSE <<>>

\* str(n) of an int n >= 0.
RECURSIVE py_str(_)
py_str(n) == IF n < 10 THEN <<DigitChar[n + 1]>> ELSE py_str(n \div 10) \o <<DigitChar[(n % 10) + 1]>>

\* The keys and values found in mappings files.
MapKeys == {<<"7">>, <<"0", "7">>, <<"x">>, <<"2", "5", "6">>, <<"-", "1">>}
MapValues == {"A", "B"}
APP_MAPPINGS == <<"a", "p", "p", "_", "m", "a", "p", "p", "i", "n", "g", "s">>
PARAMETERS == <<"p", "a", "r", "a", "m", "e", "t", "e", "r", "s">>

\* An entry of a JSON object, and the objects of up to two entries with distinct
\* keys (json.loads keeps one entry per key), in file order.
Entry(k, v) == [key |-> k, app_name |-> v]
Entries == {Entry(k, v) : k \in MapKeys, v \in MapValues}
Mappings ==
    {<<>>} \cup {<<e>> : e \in Entries}
           \cup {m \in Entries \X Entries : m[1].key # m[2].key}

\* app_mappings.json: missing, the mapping itself, or the mapping wrapped in
\* {"app_mappings": {...}, "parameters": {...}}.
NoFile == [exists |-> FALSE, wrapped |-> FALSE, entries |-> <<>>]
MappingsFiles ==
    {NoFile} \cup {[exists |-> TRUE, wrapped |-> w, entries |-> m] : w \in BOOLEAN, m \in Mappings}

\* migrate_manifest_v2: strips "external_apis"; timeout_behavior "none" / "rerun"
\* becomes "return", and timeout_seconds 900 when it was missing or below 600.
migrate_manifest_v2(raw) ==
    LET legacy == raw.behavior \in {"none", "rerun"}
    IN [json |-> raw.json,
        timeout |-> IF legacy /\ (raw.timeout = <<>> \/ raw.timeout[1] < 6000)
                    THEN <<9000>> ELSE raw.timeout,
        behavior |-> IF legacy THEN "return" ELSE raw.behavior,
        extra |-> IF raw.extra = "external_apis" THEN "" ELSE raw.extra]

\* AppManifest(**raw) raises ValidationError unless: no unknown key (extra =
\* "forbid"), timeout_behavior is "return", and timeout_seconds, when given, is a
\* whole number (an int field takes no fractional value) that is >= 1 (ge=1).
timeout_ok_any(t) == t = <<>> \/ t[1] % 10 = 0
timeout_ok(t) == t = <<>> \/ (t[1] % 10 = 0 /\ t[1] \div 10 >= 1)

validates(raw) ==
    /\ raw.extra = ""
    /\ raw.behavior = "return"
    /\ timeout_ok(raw.timeout)

\* The AppManifest object: timeout_seconds, default 120.
AppManifest(raw) ==
    [timeout_seconds |-> IF raw.timeout = <<>> THEN 120 ELSE raw.timeout[1] \div 10]

\* The try block of _load_manifests for one directory: <<manifest>>, or <<>>
\* when there is no manifest.json or anything in the block raised.
load_one(dsc) ==
    IF dsc.json = "object" /\ validates(migrate_manifest_v2(dsc))
    THEN <<AppManifest(migrate_manifest_v2(dsc))>>
    ELSE <<>>

\* _load_manifests: a fresh dict, one entry per directory whose manifest loads; a
\* directory whose manifest raises is skipped and the loop goes on.
RECURSIVE load_manifests_upto_failure(_, _)
load_manifests_upto_failure(dirs, dir) ==
    IF dirs = <<>> THEN [u \in {} |-> None]
    ELSE IF dir[Head(dirs)].json = "none"
         THEN load_manifests_upto_failure(Tail(dirs), dir)
         ELSE IF load_one(dir[Head(dirs)]) = <<>> THEN [u \in {} |-> None]
              ELSE LET rest == load_manifests_upto_failure(Tail(dirs), dir)
                   IN [u \in DOMAIN rest \cup {Head(dirs)} |->
                         IF u = Head(dirs) THEN load_one(dir[u])[1] ELSE rest[u]]
load_manifests_all(dirs, dir) ==
    [u \in {d \in Range(dirs) : load_one(dir[d]) # <<>>} |-> load_one(dir[u])[1]]

load_manifests(dirs, dir) == load_manifests_all(dirs, dir)

\* raw.items() of _load_mappings: the top-level entries of the file, which for a
\* wrapped file are the two members of the envelope (their values are dicts).
raw_items(mf) ==
    IF mf.wrapped THEN <<Entry(APP_MAPPINGS, "{...}"), Entry(PARAMETERS, "{...}")>>
    ELSE mf.entries

\* raw.get("app_mappings", raw).items() of scripts/validate_manifests.py.
unwrapped_items(mf) == mf.entries

\* The for loop of _load_mappings over items, m being switch_map so far.
RECURSIVE bind(_, _, _)
bind(items, mans, m) ==
    IF items = <<>> THEN m
    ELSE LET it == Head(items)
             n == py_int(it.key)
         IN IF n = <<>> THEN bind(Tail(items), mans, m)
            ELSE IF it.app_name \notin DOMAIN mans THEN bind(Tail(items), mans, m)
            ELSE bind(Tail(items), mans,
                      [k \in DOMAIN m \cup {n[1]} |-> IF k = n[1] THEN it.app_name ELSE m[k]])

\* _load_mappings: {} when the file is missing, else a fresh dict filled by the loop.
load_mappings_unchecked(mf, mans) ==
    IF ~mf.exists THEN [k \in {} |-> None]
    ELSE bind(raw_items(mf), [u \in MapValues |-> None], [k \in {} |-> None])
load_mappings(mf, mans) ==
    IF ~mf.exists THEN [k \in {} |-> None]
    ELSE bind(raw_items(mf), mans, [k \in {} |-> None])

\* scan_apps on a manager whose fields are mgr: both fields are assigned anew.
scan_apps_patch(mgr, dir, mf) ==
    LET mans == load_manifests(UnitDirs, dir)
        new == load_mappings(mf, mans)
    IN [manifests |-> mans,
        switch_map |-> [k \in DOMAIN mgr.switch_map \cup DOMAIN new |->
                          IF k \in DOMAIN new THEN new[k] ELSE mgr.switch_map[k]]]
scan_apps(mgr, dir, mf) ==
    LET mans == load_manifests(UnitDirs, dir)
    IN [manifests |-> mans, switch_map |-> load_mappings(mf, mans)]

\* AppManager.__init__: both dicts empty.
NewManager == [manifests |-> [u \in {} |-> None], switch_map |-> [k \in {} |-> None]]

\* dict.get on _switch_map and _manifests: <<value>>, or <<>> for None.
resolve(m, v) == IF v \in DOMAIN m THEN <<m[v]>> ELSE <<>>
get_manifest(mans, u) == IF u \in DOMAIN mans THEN <<mans[u]>> ELSE <<>>

\* A mappings file that is a JSON object but not a mapping of keys to unit names:
\* the value of an integer key is itself an object, as in {"7": {"app": "A"}}.
Unhashable == "{...}"
MalformedFiles ==
    {[exists |-> TRUE, wrapped |-> FALSE, entries |-> <<Entry(<<"7">>, Unhashable)>>],
     [exists |-> TRUE, wrapped |-> FALSE,
      entries |-> <<Entry(<<"7">>, "A"), Entry(<<"0", "7">>, Unhashable)>>]}

\* _load_mappings raises: "app_name not in self._manifests" (line 119) is a dict
\* lookup and raises TypeError for a value that is a dict; it is reached for the
\* entries whose key int() accepts.
load_mappings_raises(mf) ==
    /\ mf.exists
    /\ \E i \in 1..Len(raw_items(mf)) :
         py_int(raw_items(mf)[i].key) # <<>> /\ raw_items(mf)[i].app_name = Unhashable

\* scan_apps when _load_mappings raises: line 50 has assigned _manifests, line 51
\* assigns nothing and the exception leaves scan_apps.
scan_apps_raised(mgr, dir, mf) ==
    [manifests |-> load_manifests(UnitDirs, dir), switch_map |-> mgr.switch_map]

(***************************************************************************)
(* Initial state: EventBus() started, AppRunner(bus) constructed.          *)
(***************************************************************************)
Runs == 1..MaxRuns

\* The selector positions of the model, 7 mapped to unit "A" and 8 to nothing
\* (AppManager.get_app_for_switch is a dict lookup), and the LED colours.
Sel == {7, 8}
Colours == {"red"}

\* Everything but the caller of migrate_manifest_v2.
InitCore ==
    /\ queue = <<>>
    /\ subscriptions = [s \in {} |-> None]
    /\ type_index = [t \in EventTypes |-> <<>>]
    /\ nsubs = 0
    /\ nevents = 0
    /\ cpc = "get"
    /\ cur = <<>>
    /\ snap = <<>>
    /\ idx = 0
    /\ running = 0
    /\ pending = <<>>
    /\ invoked = <<>>
    /\ lastEv = [s \in 1..MaxSubs |-> 0]
    /\ raisedOn = [s \in 1..MaxSubs |-> <<>>]
    /\ ndropped = 0
    /\ maxDropped = 0
    /\ dropOk = TRUE
    /\ ndispatched = 0
    /\ lastDispatched = 0
    /\ publishRaised = FALSE
    /\ lpc = "idle"
    /\ call = [app |-> None, kind |-> None]
    /\ top = "none"
    /\ r_thread = 0
    /\ r_stop_event = 0
    /\ r_app_name = None
    /\ r_timer = 0
    /\ nruns = 0
    /\ app = [r \in Runs |-> None]
    /\ kind = [r \in Runs |-> None]
    /\ wpc = [r \in Runs |-> "none"]
    /\ token = [r \in 0..MaxRuns |-> FALSE]
    /\ tpc = [r \in Runs |-> "none"]
    /\ tcancelled = [r \in Runs |-> FALSE]
    /\ outcome = [r \in Runs |-> "none"]
    /\ elapsedAlive = [r \in Runs |-> FALSE]
    /\ stopSet = [r \in 0..MaxRuns |-> FALSE]
    /\ result = "none"
    /\ sub_ids = [r \in Runs |-> <<>>]
    /\ owner = [s \in 1..MaxSubs |-> 0]
    /\ switch_val = 7
    /\ display = 7
    /\ screen = <<"blank">>
    /\ leds = [c \in Colours |-> FALSE]
    /\ go_sub = TRUE
    /\ go_sv = 0
    /\ led_states = [c \in Colours |-> FALSE]
    /\ ngo = 0
    /\ nsw = 0
    /\ nled = 0
    /\ npress = 0
    /\ buslog = <<>>
    /\ golog = <<>>
    /\ restoreAt = [r \in Runs |-> <<>>]
    /\ termDropped = [r \in Runs |-> FALSE]
    /\ presses = <<>>
    /\ ledSeen = [c \in Colours |-> <<>>]
    /\ apps_dir = [u \in Range(UnitDirs) |-> IF u = "A" THEN Manifest(<<>>, "return", "") ELSE NoManifest]
    /\ mappings_file = NoFile
    /\ manifests = NewManager.manifests
    /\ switch_map = NewManager.switch_map
    /\ timer_budget = <<>>
    /\ nedits = 0
    /\ nscans = 0
    /\ in_sync = FALSE

\* A caller holding the dict raw, before any call.
Caller(raw) ==
    /\ mig_heap = <<raw>>
    /\ mig_res = <<>>
    /\ mig_in = raw

Init == InitCore /\ Caller(Manifest(<<>>, "return", ""))

\* The raw descriptors handed to migrate_manifest_v2: timeouts absent, 0, 599,
\* 599.5, 600, 900 and 1200 s; a timeout_behavior that is current, deprecated or
\* unknown; no other key, a key the migration strips, a key it leaves.
RawTimeouts == {<<>>, <<0>>, <<5990>>, <<5995>>, <<6000>>, <<9000>>, <<12000>>}
RawBehaviors == {"return", "none", "rerun", "loop"}
RawExtras == {"", "external_apis", "surprise"}
RawDescriptors == {Manifest(t, b, x) : t \in RawTimeouts, b \in RawBehaviors, x \in RawExtras}

MigrateInit == InitCore /\ \E raw \in RawDescriptors : Caller(raw)

(***************************************************************************)
(* AppRunner                                                               *)
(***************************************************************************)
\* Unit ids, and how a unit's entry (loading it, then run(stop_event, api)) behaves:
\*   "ends"  it returns or raises by itself, whatever the token says
\*   "wait"  its body is stop_event.wait(): it returns once the token is set
\*   "hang"  it ignores the token; it may end at any time, or never
Units == {"A", "B"}
Kinds == {"ends", "wait", "hang"}

\* AppRunner.is_running.
is_running == r_thread # 0 /\ wpc[r_thread] # "dead"

Alive(r) == wpc[r] \notin {"none", "dead"}
\* The unit's entry has not returned or raised yet.
InEntry(r) == wpc[r] \in {"start", "body"}

\* Thread.join(timeout) returns: the thread has exited, or the timeout elapsed.  A
\* unit that ends by itself or observes its token exits within the wait (the token
\* is set before every join); only a unit that ignores its token can outlast it.
join_nowait(t) == TRUE
join_until_started(t) == wpc[t] # "start"
join_done(t) == wpc[t] = "dead" \/ kind[t] = "hang"

\* The events _run_wrapper publishes.
started_event(u, r) ==
    Event(0, APP_STARTED,
          [k \in {"app_name", "display_name", "switch_value"} |->
             IF k = "switch_value" THEN "0" ELSE u], r)
finished_event_normal(u, tok, r) ==
    Event(0, APP_FINISHED,
          [k \in {"app_name", "reason"} |-> IF k = "app_name" THEN u ELSE "normal"], r)
finished_event(u, tok, r) ==
    Event(0, APP_FINISHED,
          [k \in {"app_name", "reason"} |->
             IF k = "app_name" THEN u ELSE IF tok THEN "timeout" ELSE "normal"], r)
error_event_anonymous(u, r) ==
    Event(0, APP_ERROR, [k \in {"error"} |-> "str(exc)"], r)
error_event(u, r) ==
    Event(0, APP_ERROR,
          [k \in {"app_name", "error"} |-> IF k = "app_name" THEN u ELSE "str(exc)"], r)

\* What _run_wrapper publishes after the entry: the try body's last statement when
\* run() returned, the except branch when something in the try body raised.
after_entry_both(oc, u, tok, r) ==
    IF oc = "returned" THEN <<finished_event(u, tok, r)>>
    ELSE <<error_event(u, r), finished_event(u, tok, r)>>
after_entry(oc, u, tok, r) ==
    IF oc = "returned" THEN <<finished_event(u, tok, r)>>
    ELSE <<error_event(u, r)>>

NoCall == [app |-> None, kind |-> None]

\* ---- loop thread: run_app -------------------------------------------------
\* run_app(app_name, ...) is called on the loop thread; line 58: if self.is_running:
\* self.stop(), whose line 97 reads is_running again.  Unit ids are interchangeable:
\* the first run is of "A".
CallRunApp(u, k) ==
    /\ lpc = "idle"
    /\ nruns < MaxRuns
    /\ nruns = 0 => u = "A"
    /\ call' = [app |-> u, kind |-> k]
    /\ top' = "run_app"
    /\ result' = "none"
    /\ lpc' = IF is_running THEN "ct_check" ELSE "ra_77"
    /\ UNCHANGED <<extVars, busVars, fieldVars, runVars, wpc, token, timerVars, outcome,
                   elapsedAlive, stopSet>>

\* lines 77-86: self._app_name = app_name; self._stop_event = threading.Event();
\* self._thread = Thread(target=_run_wrapper, args=(..., self._stop_event)); start()
RunApp77 ==
    /\ lpc = "ra_77"
    /\ r_app_name' = call.app
    /\ nruns' = nruns + 1
    /\ r_stop_event' = nruns + 1
    /\ app' = [app EXCEPT ![nruns + 1] = call.app]
    /\ kind' = [kind EXCEPT ![nruns + 1] = call.kind]
    /\ r_thread' = nruns + 1
    /\ wpc' = [wpc EXCEPT ![nruns + 1] = "start"]
    /\ lpc' = "ra_90"
    /\ UNCHANGED <<extVars, busVars, call, top, r_timer, token, timerVars, histVars>>

\* line 90: self._timer = threading.Timer(timeout, self._on_timeout, args=(app_name,))
RunApp90 ==
    /\ lpc = "ra_90"
    /\ r_timer' = r_thread
    /\ tpc' = [tpc EXCEPT ![r_thread] = "created"]
    /\ lpc' = "ra_91"
    /\ UNCHANGED <<extVars, busVars, call, top, r_thread, r_stop_event, r_app_name, runVars, wpc,
                   token, tcancelled, histVars>>

\* lines 91-93: self._timer.daemon = True; self._timer.name = ...; self._timer.start().
\* Each statement reads self._timer again: AttributeError when it is None by then.
RunApp91 ==
    /\ lpc = "ra_91"
    /\ IF r_timer = 0
       THEN result' = "raised" /\ tpc' = tpc
       ELSE result' = "returned" /\ tpc' = [tpc EXCEPT ![r_timer] = "armed"]
    /\ lpc' = IF top = "go_run" THEN "go_end" ELSE "idle"
    /\ call' = NoCall
    /\ UNCHANGED <<extVars, busVars, top, fieldVars, runVars, wpc, token, tcancelled, outcome,
                   elapsedAlive, stopSet>>

\* ---- loop thread: stop ----------------------------------------------------
\* stop() is called on the loop thread by somebody other than run_app; line 97: if
\* not self.is_running: return.
CallStop ==
    /\ lpc = "idle"
    /\ r_thread # 0
    /\ top' = "stop"
    /\ IF is_running THEN lpc' = "ct_check" /\ result' = "none"
       ELSE lpc' = "idle" /\ result' = "returned"
    /\ UNCHANGED <<extVars, busVars, call, fieldVars, runVars, wpc, token, timerVars, outcome,
                   elapsedAlive, stopSet>>

\* line 100, _cancel_timer line 154: if self._timer is not None
StopCtCheck ==
    /\ lpc = "ct_check"
    /\ lpc' = IF r_timer # 0 THEN "ct_cancel" ELSE "st_101"
    /\ UNCHANGED <<extVars, busVars, call, top, fieldVars, runVars, wpc, token, timerVars, histVars>>

\* _cancel_timer line 155: self._timer.cancel(); AttributeError when it is None by
\* now, which leaves stop, and run_app when run_app called it.
StopCtCancel ==
    /\ lpc = "ct_cancel"
    /\ IF r_timer = 0
       THEN /\ lpc' = IF top \in {"go_stop", "go_run"} THEN "go_end" ELSE "idle"
            /\ result' = "raised"
            /\ call' = NoCall
            /\ tcancelled' = tcancelled
       ELSE /\ tcancelled' = [tcancelled EXCEPT ![r_timer] = TRUE]
            /\ lpc' = "ct_clear"
            /\ UNCHANGED <<result, call>>
    /\ UNCHANGED <<extVars, busVars, top, fieldVars, runVars, wpc, token, tpc, outcome,
                   elapsedAlive, stopSet>>

\* _cancel_timer line 156: self._timer = None
StopCtClear ==
    /\ lpc = "ct_clear"
    /\ r_timer' = 0
    /\ lpc' = "st_101"
    /\ UNCHANGED <<extVars, busVars, call, top, r_thread, r_stop_event, r_app_name, runVars, wpc,
                   token, timerVars, histVars>>

\* line 101: self._stop_event.set()
Stop101 ==
    /\ lpc = "st_101"
    /\ token' = [token EXCEPT ![r_stop_event] = TRUE]
    /\ stopSet' = [stopSet EXCEPT ![r_stop_event] = TRUE]
    /\ lpc' = "st_103"
    /\ UNCHANGED <<extVars, busVars, call, top, fieldVars, runVars, wpc, timerVars, outcome,
                   elapsedAlive, result>>

\* lines 102-105: self._thread.join(timeout=timeout) and the is_alive() warning; stop
\* returns.  In run_app, lines 65-75 follow: if the thread is still alive, one more
\* join(timeout=2.0) and the "refused to stop" error; run_app goes on either way.
Stop103 ==
    /\ lpc = "st_103"
    /\ join_done(r_thread)
    /\ IF top \in {"run_app", "go_run"} THEN lpc' = "ra_77" /\ result' = result
       ELSE IF top = "go_stop" THEN lpc' = "go_97" /\ result' = result
       ELSE lpc' = "idle" /\ result' = "returned"
    /\ UNCHANGED <<extVars, busVars, call, top, fieldVars, runVars, wpc, token, timerVars, outcome,
                   elapsedAlive, stopSet>>

\* ---- worker thread: _run_wrapper ------------------------------------------
\* line 120: publish_threadsafe(APP_STARTED, ...)
WorkerStarted(r) ==
    /\ wpc[r] = "start"
    /\ pending' = Append(pending, started_event(app[r], r))
    /\ wpc' = [wpc EXCEPT ![r] = "body"]
    /\ UNCHANGED <<extVars, subVars, qVars, conVars, loopVars, fieldVars, runVars, token, timerVars,
                   histVars>>

\* lines 129-142: run_func(stop_event, api) returns, reason is read from
\* stop_event.is_set() and APP_FINISHED is published; or run_func or _load_run_func
\* raises and the except branch publishes APP_ERROR.
WorkerEntry(r, oc) ==
    /\ wpc[r] = "body"
    /\ kind[r] = "wait" => token[r] /\ oc = "returned"
    /\ outcome' = [outcome EXCEPT ![r] = oc]
    /\ pending' = pending \o after_entry(oc, app[r], token[r], r)
    /\ wpc' = [wpc EXCEPT ![r] = "ct_check"]
    /\ UNCHANGED <<extVars, subVars, qVars, conVars, loopVars, fieldVars, runVars, token, timerVars,
                   elapsedAlive, stopSet, result>>

\* finally, line 144, _cancel_timer line 154: if self._timer is not None
WorkerCtCheck(r) ==
    /\ wpc[r] = "ct_check"
    /\ wpc' = [wpc EXCEPT ![r] = IF r_timer # 0 THEN "ct_cancel" ELSE "cleanup"]
    /\ UNCHANGED <<extVars, busVars, loopVars, fieldVars, runVars, token, timerVars, histVars>>

\* _cancel_timer line 155: self._timer.cancel(); AttributeError when it is None by
\* now, which leaves the finally block before api._cleanup() and ends the thread.
WorkerCtCancel(r) ==
    /\ wpc[r] = "ct_cancel"
    /\ IF r_timer = 0
       THEN wpc' = [wpc EXCEPT ![r] = "dead"] /\ tcancelled' = tcancelled
       ELSE /\ tcancelled' = [tcancelled EXCEPT ![r_timer] = TRUE]
            /\ wpc' = [wpc EXCEPT ![r] = "ct_clear"]
    /\ UNCHANGED <<extVars, busVars, loopVars, fieldVars, runVars, token, tpc, histVars>>

\* _cancel_timer line 156: self._timer = None
WorkerCtClear(r) ==
    /\ wpc[r] = "ct_clear"
    /\ r_timer' = 0
    /\ wpc' = [wpc EXCEPT ![r] = "cleanup"]
    /\ UNCHANGED <<extVars, busVars, loopVars, r_thread, r_stop_event, r_app_name, runVars, token,
                   timerVars, histVars>>

\* ---- worker thread: the unit uses api.event_bus (_ScopedEventBus) -----------
\* _ScopedEventBus.cleanup: unsubscribe every sub_id of the list, then clear it.
RECURSIVE cleanup(_, _)
cleanup(st, ids) ==
    IF ids = <<>> THEN st ELSE cleanup(unsubscribe(st, Head(ids)), Tail(ids))

\* The unit's run() calls api.event_bus.subscribe(event_type, handler, filter_dict):
\* bus.subscribe on the worker thread, and the new sub_id is appended to _sub_ids.
WorkerSubscribe(r, t, f) ==
    /\ wpc[r] = "body"
    /\ nsubs < MaxSubs
    /\ LET st == subscribe(Tables, nsubs + 1, t, f)
       IN /\ subscriptions' = st.subs
          /\ type_index' = st.index
    /\ nsubs' = nsubs + 1
    /\ sub_ids' = [sub_ids EXCEPT ![r] = Append(@, nsubs + 1)]
    /\ owner' = [owner EXCEPT ![nsubs + 1] = r]
    /\ UNCHANGED <<sysVars, catVars, running, invoked, lastEv, raisedOn, qVars, conVars, pending, runnerVars>>

\* The unit's run() calls api.event_bus.unsubscribe(sub_id) for one of its sub_ids.
WorkerUnsubscribe(r, sub_id) ==
    /\ wpc[r] = "body"
    /\ sub_id \in Range(sub_ids[r])
    /\ LET st == unsubscribe(Tables, sub_id)
       IN /\ subscriptions' = st.subs
          /\ type_index' = st.index
    /\ sub_ids' = [sub_ids EXCEPT ![r] = RemoveFirst(@, sub_id)]
    /\ UNCHANGED <<sysVars, catVars, owner, nsubs, running, invoked, lastEv, raisedOn, qVars, conVars, pending,
                   runnerVars>>

\* line 145: api._cleanup(), which is event_bus.cleanup(); the thread ends.
WorkerCleanup(r) ==
    /\ wpc[r] = "cleanup"
    /\ LET st == cleanup(Tables, sub_ids[r])
       IN /\ subscriptions' = st.subs
          /\ type_index' = st.index
    /\ sub_ids' = [sub_ids EXCEPT ![r] = <<>>]
    /\ wpc' = [wpc EXCEPT ![r] = "dead"]
    /\ UNCHANGED <<sysVars, catVars, owner, nsubs, running, invoked, lastEv, raisedOn, qVars, conVars, pending,
                   loopVars, fieldVars, runVars, token, timerVars, histVars>>

\* ---- timer thread: threading.Timer.run and _on_timeout ----------------------
\* The budget of run r elapses.  A cancelled Timer calls nothing; otherwise
\* _on_timeout(app_name) runs, line 148: if self._app_name == app_name and is_running.
TimerElapses(r) ==
    /\ tpc[r] = "armed"
    /\ elapsedAlive' = [elapsedAlive EXCEPT ![r] = InEntry(r)]
    /\ tpc' = [tpc EXCEPT ![r] =
                 IF ~tcancelled[r] /\ r_app_name = app[r] /\ is_running
                 THEN "fire" ELSE "done"]
    /\ UNCHANGED <<extVars, busVars, loopVars, fieldVars, runVars, wpc, token, tcancelled, outcome,
                   stopSet, result>>

\* _on_timeout line 150: self._stop_event.set()
TimerSets(r) ==
    /\ tpc[r] = "fire"
    /\ token' = [token EXCEPT ![r_stop_event] = TRUE]
    /\ tpc' = [tpc EXCEPT ![r] = "done"]
    /\ UNCHANGED <<extVars, busVars, loopVars, fieldVars, runVars, wpc, tcancelled, histVars>>


(***************************************************************************)
(* HardwareEventBridge, AppLauncher and the units' use of the hardware     *)
(***************************************************************************)
GO_BUTTON_PRESSED == "input.go_button.pressed"
SWITCH_CHANGED == "input.switch.changed"
BUTTON_PRESSED == "input.button.pressed"
LED_STATE_CHANGED == "output.led.state_changed"
DISPLAY_UPDATED == "output.display.updated"
APP_LAUNCH_REQUESTED == "system.app.launch.requested"

Lifecycle == {APP_LAUNCH_REQUESTED, APP_STARTED, APP_FINISHED, APP_ERROR}
Terminal == {APP_FINISHED, APP_ERROR}

\* AppManager.get_app_for_switch(value): self._switch_map.get(value)
get_app_for_switch(v) == IF v = 7 THEN "A" ELSE None

\* How the units the Launcher starts behave (see Kinds); they observe their token.
LaunchKinds == {"ends", "wait"}

launch_requested(v) == Event(0, APP_LAUNCH_REQUESTED, [switch_value |-> v], 0)
display_updated(v) == Event(0, DISPLAY_UPDATED, [value |-> v], 0)
go_pressed == Event(0, GO_BUTTON_PRESSED, EmptyDict, 0)
switch_changed(old, new) == Event(0, SWITCH_CHANGED, [old_value |-> old, new_value |-> new], 0)
button_pressed(c) == Event(0, BUTTON_PRESSED, [button |-> c], 0)
led_state_changed(c, on, r) == Event(0, LED_STATE_CHANGED, [color |-> c, is_on |-> on], r)

\* What a publish on the loop removes from the queue q to make room.
removed(q) == IF full(q) /\ q # <<>> THEN <<Head(q)>> ELSE <<>>

\* EventBus.publish(ev) on the loop, queue q being what the caller left of it.
LoopPublish(q, ev) ==
    /\ queue' = publish(q, ev).queue
    /\ ndropped' = ndropped + Len(removed(q))
    /\ termDropped' = [r \in Runs |->
                         \/ termDropped[r]
                         \/ \E i \in 1..Len(removed(q)) :
                              removed(q)[i].type \in Terminal /\ removed(q)[i].run = r]
    /\ buslog' = IF ev.type \in Lifecycle THEN Append(buslog, ev) ELSE buslog

\* ---- hardware threads: the Bridge's callbacks ----------------------------
\* _on_go_pressed (callback): publish_threadsafe(GO_BUTTON_PRESSED, {})
GoPress ==
    /\ ngo < MaxRuns
    /\ ngo' = ngo + 1
    /\ pending' = Append(pending, go_pressed)
    /\ UNCHANGED <<subVars, qVars, conVars, runnerVars, apiVars, catVars, hwVars, goVars, led_states,
                   nsw, nled, npress, logVars>>

\* The selector moves to v and calls _on_switch_changed(old_value, new_value):
\* publish_threadsafe(SWITCH_CHANGED, ...)
SwitchChange(v) ==
    /\ nsw < MaxSw
    /\ v # switch_val
    /\ nsw' = nsw + 1
    /\ switch_val' = v
    /\ pending' = Append(pending, switch_changed(switch_val, v))
    /\ UNCHANGED <<subVars, qVars, conVars, runnerVars, apiVars, catVars, display, screen, leds,
                   goVars, led_states, ngo, nled, npress, logVars>>

\* _on_button_pressed(color): forwarded when self._led_states.get(color, False).
button_forwarded_always(c) == TRUE
button_forwarded(c) == led_states[c]

ButtonPress(c) ==
    /\ npress < MaxPress
    /\ npress' = npress + 1
    /\ pending' = IF button_forwarded(c) THEN Append(pending, button_pressed(c)) ELSE pending
    /\ presses' = Append(presses, [button |-> c, led |-> leds[c], seen |-> ledSeen[c],
                                   forwarded |-> button_forwarded(c)])
    /\ UNCHANGED <<subVars, qVars, conVars, runnerVars, apiVars, catVars, hwVars, goVars, led_states,
                   ngo, nsw, nled, buslog, golog, restoreAt, termDropped, ledSeen>>

\* ---- worker thread: the unit uses api.hardware and api.screen -------------
\* _HardwareAPI.set_led(color, on): leds.set_led, then
\* publish_threadsafe(LED_STATE_CHANGED, {"color": color, "is_on": on})
UnitSetLed(r, c, on) ==
    /\ wpc[r] = "body"
    /\ nled < MaxLed
    /\ nled' = nled + 1
    /\ leds' = [leds EXCEPT ![c] = on]
    /\ pending' = Append(pending, led_state_changed(c, on, r))
    /\ UNCHANGED <<subVars, qVars, conVars, runnerVars, apiVars, catVars, switch_val, display, screen,
                   goVars, led_states, ngo, nsw, npress, logVars>>

\* api.screen.display_text(...) by the unit of run r.
UnitWrites(r) ==
    /\ wpc[r] = "body"
    /\ screen # <<"text", r>>
    /\ screen' = <<"text", r>>
    /\ UNCHANGED <<busVars, runnerVars, apiVars, catVars, switch_val, display, leds, goVars,
                   led_states, countVars, logVars>>

\* ---- loop thread ------------------------------------------------------------
\* _consume after a dispatch whose handlers never suspended (those of Launcher and
\* Bridge do not: their awaits are of EventBus.publish, which has no await): with
\* an event queued, queue.get() returns at once and the task goes on without
\* yielding to the loop ("drain"); with none it suspends in queue.get() ("get").
consumer_after(q) == IF q = <<>> THEN "get" ELSE "drain"

\* The publish coroutine that publish_threadsafe scheduled with
\* run_coroutine_threadsafe runs: EventBus.publish of the oldest event handed
\* over.  The loop runs it only while no other task is running.
LoopRunsPublish ==
    /\ lpc = "idle"
    /\ cpc = "get"
    /\ pending # <<>>
    /\ LoopPublish(queue, Head(pending))
    /\ pending' = Tail(pending)
    /\ UNCHANGED <<subVars, maxDropped, dropOk, publishRaised, nevents, conVars, runnerVars,
                   apiVars, catVars, hwVars, goVars, led_states, countVars, golog, restoreAt, presses, ledSeen>>

\* The consumer takes a GO_BUTTON_PRESSED event and _dispatch calls
\* AppLauncher._on_go_pressed when it is still subscribed; lines 73-94, and line 97
\* of stop: the selector is read, APP_LAUNCH_REQUESTED published, the unit resolved.
GoPressed ==
    /\ lpc = "idle"
    /\ queue # <<>>
    /\ Head(queue).type = GO_BUTTON_PRESSED
    /\ golog' = Append(golog, [switch_value |-> switch_val, idle |-> ~is_running,
                               handled |-> go_sub, at |-> Len(buslog),
                               run |-> nruns + 1])
    /\ IF ~go_sub
       THEN /\ queue' = Tail(queue)
            /\ UNCHANGED <<ndropped, termDropped, buslog, screen, lpc, top, go_sv>>
       ELSE /\ LoopPublish(Tail(queue), launch_requested(switch_val))
            /\ IF get_app_for_switch(switch_val) = None
               THEN /\ screen' = <<"no_app">>
                    /\ UNCHANGED <<lpc, top, go_sv>>
               ELSE /\ go_sv' = switch_val
                    /\ top' = "go_stop"
                    /\ lpc' = IF is_running THEN "ct_check" ELSE "go_97"
                    /\ screen' = screen
    /\ cpc' = consumer_after(queue')
    /\ UNCHANGED <<subVars, maxDropped, dropOk, publishRaised, nevents, cur, snap, idx,
                   ndispatched, lastDispatched, pending, call, fieldVars, runVars, wpc,
                   token, timerVars, histVars, apiVars, catVars, switch_val, display, leds, go_sub,
                   led_states, countVars, restoreAt, presses, ledSeen>>

\* _on_go_pressed lines 96-117: _transition_feedback (screen.clear, "Launching...",
\* show_number(switch_value), publish_threadsafe(DISPLAY_UPDATED)), the AppAPI is
\* built and run_app is called (its line 58 and stop's line 97 read is_running).
GoLaunch(k) ==
    /\ lpc = "go_97"
    /\ nruns < MaxRuns
    /\ screen' = <<"launching">>
    /\ display' = go_sv
    /\ pending' = Append(pending, display_updated(go_sv))
    /\ call' = [app |-> get_app_for_switch(go_sv), kind |-> k]
    /\ top' = "go_run"
    /\ result' = "none"
    /\ lpc' = IF is_running THEN "ct_check" ELSE "ra_77"
    /\ UNCHANGED <<subVars, qVars, conVars, fieldVars, runVars, wpc, token, timerVars,
                   outcome, elapsedAlive, stopSet, apiVars, catVars, switch_val, leds, goVars,
                   led_states, countVars, logVars>>

\* _on_go_pressed is over: it returned, or stop or run_app raised out of it and the
\* except branch of _dispatch unsubscribes it.
GoEnd ==
    /\ lpc = "go_end"
    /\ lpc' = "idle"
    /\ go_sv' = 0
    /\ go_sub' = (go_sub /\ result # "raised")
    /\ UNCHANGED <<busVars, call, top, fieldVars, runVars, wpc, token, timerVars, histVars,
                   apiVars, catVars, hwVars, led_states, countVars, logVars>>

\* _post_app_cleanup shows a selector value on the display.
restore_value_at_launch == IF golog # <<>> THEN Last(golog).switch_value ELSE switch_val
restore_value == switch_val

\* The consumer takes an APP_FINISHED or APP_ERROR event: _on_app_done,
\* _post_app_cleanup: screen.clear(), leds.all_off(), show_number(get_value()),
\* publish_threadsafe(DISPLAY_UPDATED).
AppDone ==
    /\ lpc = "idle"
    /\ queue # <<>>
    /\ Head(queue).type \in Terminal
    /\ queue' = Tail(queue)
    /\ screen' = <<"blank">>
    /\ leds' = [c \in Colours |-> FALSE]
    /\ display' = restore_value
    /\ pending' = Append(pending, display_updated(restore_value))
    /\ restoreAt' = [restoreAt EXCEPT ![Head(queue).run] =
                       <<[screen |-> screen', leds |-> leds', display |-> display',
                          switch_val |-> switch_val]>>]
    /\ cpc' = consumer_after(queue')
    /\ UNCHANGED <<subVars, ndropped, maxDropped, dropOk, publishRaised, nevents, cur, snap,
                   idx, ndispatched, lastDispatched, runnerVars, apiVars, catVars, switch_val,
                   goVars, led_states, countVars, buslog, golog, termDropped, presses,
                   ledSeen>>

\* _on_switch_changed shows the new value unless a unit is running.
switch_shown_always(ev) == TRUE
switch_shown(ev) == ~is_running

\* The consumer takes a SWITCH_CHANGED event: AppLauncher._on_switch_changed.
SwitchChanged ==
    /\ lpc = "idle"
    /\ queue # <<>>
    /\ Head(queue).type = SWITCH_CHANGED
    /\ IF switch_shown(Head(queue))
       THEN /\ display' = Head(queue).payload.new_value
            /\ LoopPublish(Tail(queue), display_updated(Head(queue).payload.new_value))
       ELSE /\ queue' = Tail(queue)
            /\ UNCHANGED <<display, ndropped, termDropped, buslog>>
    /\ cpc' = consumer_after(queue')
    /\ UNCHANGED <<subVars, maxDropped, dropOk, publishRaised, nevents, cur, snap, idx,
                   ndispatched, lastDispatched, pending, runnerVars, apiVars, catVars, switch_val,
                   screen, leds, goVars, led_states, countVars, golog, restoreAt, presses, ledSeen>>

\* HardwareEventBridge._on_led_state_changed stores is_on under the colour.
led_cache_keep(cache, ev) == cache
led_cache(cache, ev) == [cache EXCEPT ![ev.payload.color] = ev.payload.is_on]

\* The consumer takes a LED_STATE_CHANGED event.
LedStateChanged ==
    /\ lpc = "idle"
    /\ queue # <<>>
    /\ Head(queue).type = LED_STATE_CHANGED
    /\ queue' = Tail(queue)
    /\ led_states' = led_cache(led_states, Head(queue))
    /\ ledSeen' = [ledSeen EXCEPT ![Head(queue).payload.color] = <<Head(queue).payload.is_on>>]
    /\ cpc' = consumer_after(queue')
    /\ UNCHANGED <<subVars, ndropped, maxDropped, dropOk, publishRaised, nevents, cur, snap,
                   idx, ndispatched, lastDispatched, pending, runnerVars, apiVars, catVars, hwVars,
                   goVars, countVars, buslog, golog, restoreAt, termDropped, presses>>

\* The consumer takes an event of a type that Launcher and Bridge do not handle.
NoCoreHandler ==
    /\ lpc = "idle"
    /\ queue # <<>>
    /\ Head(queue).type \in {APP_LAUNCH_REQUESTED, APP_STARTED, DISPLAY_UPDATED, BUTTON_PRESSED}
    /\ queue' = Tail(queue)
    /\ cpc' = consumer_after(queue')
    /\ UNCHANGED <<subVars, ndropped, maxDropped, dropOk, publishRaised, nevents, cur, snap,
                   idx, ndispatched, lastDispatched, pending, runnerVars, apiVars, catVars, sysVars>>

(***************************************************************************)
(* Threads other than the loop thread publishing through publish_threadsafe *)
(***************************************************************************)
\* The non-loop threads of ThreadSpec (a hardware-callback thread and a worker).
Threads == {1, 2}

\* publish_threadsafe: asyncio.run_coroutine_threadsafe(self.publish(...), loop)
\* hands the coroutine to the loop with call_soon_threadsafe, which appends to the
\* loop's ready list; p is that list's part made of publish coroutines.
publish_threadsafe_front(p, ev) == <<ev>> \o p
publish_threadsafe(p, ev) == Append(p, ev)

\* Thread th calls bus.publish_threadsafe(t, p); the event's id is its place in the
\* order of the calls and its run field names the calling thread (history only).
ThreadPublish(th, t, p) ==
    /\ nevents < MaxEvents
    /\ nevents' = nevents + 1
    /\ pending' = publish_threadsafe(pending, Event(nevents + 1, t, p, th))
    /\ UNCHANGED <<extVars, subVars, queue, ndropped, maxDropped, dropOk, publishRaised,
                   conVars, runnerVars>>

\* The loop runs the oldest publish coroutine handed over: EventBus.publish.  The
\* loop is free for it while the consumer task is suspended, in queue.get() or in
\* the await of a coroutine handler.
PublishRuns ==
    /\ lpc = "idle"
    /\ cpc = "get" \/ running # 0
    /\ pending # <<>>
    /\ DoPublish(Head(pending))
    /\ pending' = Tail(pending)
    /\ UNCHANGED <<extVars, subVars, nevents, conVars, runnerVars>>

(***************************************************************************)
(* The catalog: edits of the files, scan_apps, the admin page's assignment   *)
(* and the launch that arms the Timer                                        *)
(***************************************************************************)
\* Somebody writes, replaces or removes the manifest.json of directory u.
WriteManifest(u, dsc) ==
    /\ nedits < MaxEdits
    /\ dsc # apps_dir[u]
    /\ apps_dir' = [apps_dir EXCEPT ![u] = dsc]
    /\ nedits' = nedits + 1
    /\ in_sync' = FALSE
    /\ UNCHANGED <<busVars, runnerVars, apiVars, sysVars, migVars, mappings_file, manifests, switch_map,
                   timer_budget, nscans>>

\* Somebody writes, replaces or removes app_mappings.json.
WriteMappings(mf) ==
    /\ nedits < MaxEdits
    /\ mf # mappings_file
    /\ mappings_file' = mf
    /\ nedits' = nedits + 1
    /\ in_sync' = FALSE
    /\ UNCHANGED <<busVars, runnerVars, apiVars, sysVars, migVars, apps_dir, manifests, switch_map,
                   timer_budget, nscans>>

\* AppManager.scan_apps().
ScanApps ==
    /\ nscans < MaxScans
    /\ ~load_mappings_raises(mappings_file)
    /\ LET mgr == scan_apps([manifests |-> manifests, switch_map |-> switch_map],
                            apps_dir, mappings_file)
       IN /\ manifests' = mgr.manifests
          /\ switch_map' = mgr.switch_map
    /\ nscans' = nscans + 1
    /\ in_sync' = TRUE
    /\ UNCHANGED <<busVars, runnerVars, apiVars, sysVars, migVars, apps_dir, mappings_file, timer_budget,
                   nedits>>

\* Somebody writes an app_mappings.json that is not a mapping of keys to names.
WriteMalformedMappings(mf) ==
    /\ nedits < MaxEdits
    /\ mf # mappings_file
    /\ mappings_file' = mf
    /\ nedits' = nedits + 1
    /\ in_sync' = FALSE
    /\ UNCHANGED <<busVars, runnerVars, apiVars, sysVars, migVars, apps_dir, manifests, switch_map,
                   timer_budget, nscans>>

\* AppManager.scan_apps() raising out of _load_mappings.
ScanAppsRaises ==
    /\ nscans < MaxScans
    /\ load_mappings_raises(mappings_file)
    /\ LET mgr == scan_apps_raised([manifests |-> manifests, switch_map |-> switch_map],
                                   apps_dir, mappings_file)
       IN /\ manifests' = mgr.manifests
          /\ switch_map' = mgr.switch_map
    /\ nscans' = nscans + 1
    /\ in_sync' = FALSE
    /\ UNCHANGED <<busVars, runnerVars, apiVars, sysVars, migVars, apps_dir, mappings_file, timer_budget,
                   nedits>>

\* sorted(mappings.items(), key=lambda item: int(item[0])): a stable sort.
RECURSIVE sorted_by_int(_)
sorted_by_int(es) ==
    IF es = <<>> THEN <<>>
    ELSE LET e == es[Len(es)]
             front == sorted_by_int(SubSeq(es, 1, Len(es) - 1))
             le == SelectSeq(front, LAMBDA x : py_int(x.key)[1] <= py_int(e.key)[1])
             gt == SelectSeq(front, LAMBDA x : py_int(x.key)[1] > py_int(e.key)[1])
         IN le \o <<e>> \o gt

\* AdminPage._assign_app_switch up to the write: ok is FALSE when it returns
\* (False, message) or raises before writing, and file is then mf itself.
assign_app_switch(mf, name, text) ==
    LET n == py_int(text)
        key == py_str(n[1])
        taken == \E i \in 1..Len(mf.entries) :
                    mf.entries[i].key = key /\ mf.entries[i].app_name # name
        kept == SelectSeq(mf.entries, LAMBDA e : e.app_name # name)
        new == Append(kept, Entry(key, name))
    IN IF \/ n = <<>>
          \/ n[1] < 0 \/ n[1] > 255
          \/ ~mf.exists
          \/ taken
          \/ \E i \in 1..Len(new) : py_int(new[i].key) = <<>>
       THEN [ok |-> FALSE, file |-> mf]
       ELSE [ok |-> TRUE, file |-> [mf EXCEPT !.entries = sorted_by_int(new)]]

\* What the operator of the admin page types as switch number.
AssignTexts == {<<"7">>, <<"8">>, <<"2", "5", "6">>, <<"x">>}

\* AdminPage._assign_app_switch(app_name, switch_value_text): lines 428-464, the
\* file is rewritten and scan_apps() is called.
AssignAppSwitch(name, text) ==
    /\ nedits < MaxEdits
    /\ LET res == assign_app_switch(mappings_file, name, text)
           mgr == scan_apps([manifests |-> manifests, switch_map |-> switch_map],
                            apps_dir, res.file)
       IN /\ res.ok
          /\ mappings_file' = res.file
          /\ manifests' = mgr.manifests
          /\ switch_map' = mgr.switch_map
    /\ nedits' = nedits + 1
    /\ in_sync' = TRUE
    /\ UNCHANGED <<busVars, runnerVars, apiVars, sysVars, migVars, apps_dir, timer_budget, nscans>>

\* AppLauncher._on_go_pressed with the selector at v, as far as the catalog goes
\* (lines 73-89), and AppRunner.run_app lines 89-90: the Timer is created with
\* manifest.timeout_seconds.  get_app_dir is None when the directory is gone.
CatalogLaunch(v) ==
    /\ resolve(switch_map, v) # <<>>
    /\ LET app_name == resolve(switch_map, v)[1]
           manifest == get_manifest(manifests, app_name)
       IN /\ manifest # <<>>
          /\ apps_dir[app_name].json # "none"
          /\ timer_budget # <<manifest[1].timeout_seconds>>
          /\ timer_budget' = <<manifest[1].timeout_seconds>>
    /\ UNCHANGED <<busVars, runnerVars, apiVars, sysVars, migVars, apps_dir, mappings_file, manifests,
                   switch_map, nedits, nscans, in_sync>>

(***************************************************************************)
(* A caller of migrate_manifest_v2                                         *)
(***************************************************************************)
\* out = dict(raw), line 80: a new dict object with the content of object id.
dict_alias(heap, id) == [heap |-> heap, id |-> id]
dict_copy(heap, id) == [heap |-> Append(heap, heap[id]), id |-> Len(heap) + 1]

\* result = migrate_manifest_v2(arg), arg being the caller's dict for the first
\* call and the result of the call before for the others: every assignment and
\* pop of lines 82-97 is made on out, which is returned.
Migrate ==
    /\ Len(mig_res) < MaxMigrations
    /\ LET arg == IF mig_res = <<>> THEN 1 ELSE Last(mig_res)
           out == dict_copy(mig_heap, arg)
       IN /\ mig_heap' = [out.heap EXCEPT ![out.id] = migrate_manifest_v2(out.heap[out.id])]
          /\ mig_res' = Append(mig_res, out.id)
    /\ UNCHANGED <<busVars, runnerVars, apiVars, sysVars, apps_dir, mappings_file, manifests,
                   switch_map, timer_budget, nedits, nscans, in_sync, mig_in>>

BusNext ==
    \/ \E tf \in BusSubscribed : BusSubscribe(tf[1], tf[2])
    \/ \E s \in 0..MaxSubs : BusUnsubscribe(s)
    \/ \E tp \in BusPublished : BusPublish(tp[1], tp[2])
    \/ ConsumerGet
    \/ DispatchStep
    \/ HandlerEnd
    \/ DispatchReturn

BusSpec == Init /\ [][BusNext]_vars

Next ==
    \/ \E u \in Units, k \in Kinds : CallRunApp(u, k)
    \/ RunApp77
    \/ RunApp90
    \/ RunApp91
    \/ CallStop
    \/ StopCtCheck
    \/ StopCtCancel
    \/ StopCtClear
    \/ Stop101
    \/ Stop103
    \/ \E r \in Runs : WorkerStarted(r)
    \/ \E r \in Runs, oc \in {"returned", "raised"} : WorkerEntry(r, oc)
    \/ \E r \in Runs : WorkerCtCheck(r)
    \/ \E r \in Runs : WorkerCtCancel(r)
    \/ \E r \in Runs : WorkerCtClear(r)
    \/ \E r \in Runs : WorkerCleanup(r)
    \/ \E r \in Runs : TimerElapses(r)
    \/ \E r \in Runs : TimerSets(r)

Spec == Init /\ [][Next]_vars

\* One launch through run_app and any number of stop calls, with a unit that
\* subscribes and unsubscribes through its capability object while it runs.
ApiNext ==
    \/ \E k \in Kinds : nruns = 0 /\ CallRunApp("A", k)
    \/ RunApp77
    \/ RunApp90
    \/ RunApp91
    \/ CallStop
    \/ StopCtCheck
    \/ StopCtCancel
    \/ StopCtClear
    \/ Stop101
    \/ Stop103
    \/ \E r \in Runs : WorkerStarted(r)
    \/ \E r \in Runs, tf \in BusSubscribed : WorkerSubscribe(r, tf[1], tf[2])
    \/ \E r \in Runs, s \in 1..MaxSubs : WorkerUnsubscribe(r, s)
    \/ \E r \in Runs, oc \in {"returned", "raised"} : WorkerEntry(r, oc)
    \/ \E r \in Runs : WorkerCtCheck(r)
    \/ \E r \in Runs : WorkerCtCancel(r)
    \/ \E r \in Runs : WorkerCtClear(r)
    \/ \E r \in Runs : WorkerCleanup(r)
    \/ \E r \in Runs : TimerElapses(r)
    \/ \E r \in Runs : TimerSets(r)

ApiSpec == Init /\ [][ApiNext]_vars

\* The Launcher: go presses and selector changes, the loop with the Launcher's
\* handlers, the Runner called by the go handler, and the units' threads, over a
\* stretch of time in which no Timer's budget elapses (Spec has the Timers).
LauncherNext ==
    \/ GoPress
    \/ \E v \in Sel : SwitchChange(v)
    \/ \E r \in Runs : UnitWrites(r)
    \/ LoopRunsPublish
    \/ GoPressed
    \/ \E k \in LaunchKinds : GoLaunch(k)
    \/ GoEnd
    \/ AppDone
    \/ SwitchChanged
    \/ NoCoreHandler
    \/ RunApp77
    \/ RunApp90
    \/ RunApp91
    \/ StopCtCheck
    \/ StopCtCancel
    \/ StopCtClear
    \/ Stop101
    \/ Stop103
    \/ \E r \in Runs : WorkerStarted(r)
    \/ \E r \in Runs, oc \in {"returned", "raised"} : WorkerEntry(r, oc)
    \/ \E r \in Runs : WorkerCtCheck(r)
    \/ \E r \in Runs : WorkerCtCancel(r)
    \/ \E r \in Runs : WorkerCtClear(r)
    \/ \E r \in Runs : WorkerCleanup(r)

LauncherSpec == Init /\ [][LauncherNext]_vars

\* One launch: a single go press, selector changes, a unit that sets LEDs and
\* writes on the screen, colour-button presses, and the loop with the handlers of
\* Launcher and Bridge.
BridgeNext ==
    \/ ngo = 0 /\ GoPress
    \/ \E v \in Sel : SwitchChange(v)
    \/ \E c \in Colours : ButtonPress(c)
    \/ \E r \in Runs, c \in Colours, on \in BOOLEAN : UnitSetLed(r, c, on)
    \/ \E r \in Runs : UnitWrites(r)
    \/ LoopRunsPublish
    \/ GoPressed
    \/ \E k \in LaunchKinds : GoLaunch(k)
    \/ GoEnd
    \/ AppDone
    \/ SwitchChanged
    \/ LedStateChanged
    \/ NoCoreHandler
    \/ RunApp77
    \/ RunApp90
    \/ RunApp91
    \/ \E r \in Runs : WorkerStarted(r)
    \/ \E r \in Runs, oc \in {"returned", "raised"} : WorkerEntry(r, oc)
    \/ \E r \in Runs : WorkerCtCheck(r)
    \/ \E r \in Runs : WorkerCtCancel(r)
    \/ \E r \in Runs : WorkerCtClear(r)
    \/ \E r \in Runs : WorkerCleanup(r)
    \/ \E r \in Runs : TimerElapses(r)
    \/ \E r \in Runs : TimerSets(r)

BridgeSpec == Init /\ [][BridgeNext]_vars

\* The bus with its subscriptions made on the loop and every event published from
\* two other threads through publish_threadsafe.
ThreadNext ==
    \/ \E tf \in BusSubscribed : BusSubscribe(tf[1], tf[2])
    \/ \E th \in Threads, tp \in BusPublished : ThreadPublish(th, tp[1], tp[2])
    \/ PublishRuns
    \/ ConsumerGet
    \/ DispatchStep
    \/ HandlerEnd
    \/ DispatchReturn

ThreadSpec == Init /\ [][ThreadNext]_vars

\* The catalog: the files are edited, by hand or through the admin page,
\* scan_apps is called, and units are launched from what it found.
ScanNext ==
    \/ \E u \in Range(UnitDirs), dsc \in Descriptors : WriteManifest(u, dsc)
    \/ \E mf \in MappingsFiles : WriteMappings(mf)
    \/ ScanApps
    \/ \E name \in MapValues, text \in AssignTexts : AssignAppSwitch(name, text)
    \/ \E v \in Sel : CatalogLaunch(v)

ScanSpec == Init /\ [][ScanNext]_vars

\* The catalog rescanned while it runs (the admin page's _save_manifest_config and
\* _assign_app_switch call scan_apps), with mappings files that make it raise.
RescanNext ==
    \/ \E u \in Range(UnitDirs), dsc \in Descriptors : WriteManifest(u, dsc)
    \/ \E mf \in MappingsFiles : WriteMappings(mf)
    \/ \E mf \in MalformedFiles : WriteMalformedMappings(mf)
    \/ ScanApps
    \/ ScanAppsRaises
    \/ \E v \in Sel : CatalogLaunch(v)

RescanSpec == Init /\ [][RescanNext]_vars

\* migrate_manifest_v2 applied to every raw descriptor of RawDescriptors, and to
\* its own result.
MigrateNext == Migrate

MigrateSpec == MigrateInit /\ [][MigrateNext]_vars

(***************************************************************************)
(* Claims about the bus (checked under BusSpec)                            *)
(***************************************************************************)
QueueOrdered == \A i \in 1..(Len(queue) - 1) : queue[i].id < queue[i + 1].id

\* Every entry of the snapshot the for loop has gone through whose subscription is
\* still registered and matches the event had its handler called exactly once.
InvokedAll ==
    cur # <<>> =>
      \A k \in 1..idx :
        (/\ snap[k] \in DOMAIN subscriptions
         /\ matches_filter(cur[1], subscriptions[snap[k]].filter_dict))
        => Count(invoked, snap[k]) = 1

\* C1: with capacity K >= 1 the queue never holds more than K events and publish
\* never raises; an event is removed by publish only from the head of a full queue
\* (the oldest event), every removed event is older than every queued one, nothing
\* else is lost, and the event just published is the newest queued one until the
\* consumer takes it.
C1_OverflowDropsOldest ==
    /\ Len(queue) <= QueueSize
    /\ ~publishRaised
    /\ dropOk
    /\ QueueOrdered
    /\ \A i \in 1..Len(queue) : queue[i].id > maxDropped
    /\ nevents = ndispatched + ndropped + Len(queue)
    /\ nevents > 0 =>
         \/ queue # <<>> /\ Last(queue).id = nevents
         \/ queue = <<>> /\ lastDispatched = nevents

\* A publish found the queue full: the oldest event is gone, the new one is queued.
C1_Witness ==
    /\ ndropped >= 1
    /\ Len(queue) = QueueSize
    /\ Last(queue).id = nevents

\* C2: a handler that raised on event E was called exactly once for E, its
\* subscription is gone from both tables and it is called for no later event; the
\* other subscriptions of the snapshot that are registered and match are still called
\* for E, before and after the failing one, and the consumer goes on.
C2_RaisingHandlerRemoved ==
    /\ \A s \in 1..nsubs :
         raisedOn[s] # <<>> =>
           /\ s \notin DOMAIN subscriptions
           /\ \A t \in EventTypes : s \notin Range(type_index[t])
           /\ lastEv[s] = raisedOn[s][1].id
           /\ (cur = raisedOn[s]) => Count(invoked, s) = 1
    /\ InvokedAll
    /\ cpc \in {"get", "dispatch"}

\* A handler raised on an event, an equal event was published again and is being
\* dispatched, and another handler has been called for it.
C2_Witness ==
    \E s \in 1..nsubs :
      /\ raisedOn[s] # <<>>
      /\ cur # <<>>
      /\ cur[1].id > raisedOn[s][1].id
      /\ cur[1].type = raisedOn[s][1].type
      /\ cur[1].payload = raisedOn[s][1].payload
      /\ invoked # <<>>
      /\ idx >= Len(snap)

\* C3: events leave the queue in the order they were put in, one at a time; for the
\* event being dispatched the handlers are called in registration order, each
\* registered matching subscription of the snapshot exactly once, and while a
\* coroutine handler is awaited the for loop stands still on its entry, so the next
\* event is taken only after the last handler completed.
C3_FifoRegistrationOrder ==
    /\ QueueOrdered
    /\ \A i \in 1..Len(queue) : queue[i].id > lastDispatched
    /\ cur # <<>> => cur[1].id = lastDispatched
    /\ cur = <<>> => invoked = <<>> /\ running = 0
    /\ \A i \in 1..(Len(invoked) - 1) : invoked[i] < invoked[i + 1]
    /\ \A i \in 1..Len(invoked) :
         \E k \in 1..Len(snap) :
           /\ snap[k] = invoked[i]
           /\ k <= idx + (IF running # 0 THEN 1 ELSE 0)
           /\ lastEv[invoked[i]] = cur[1].id
    /\ InvokedAll
    /\ running # 0 =>
         /\ cpc = "dispatch"
         /\ idx < Len(snap)
         /\ snap[idx + 1] = running
         /\ Last(invoked) = running

\* The second event taken is being dispatched, two handlers have been called for it,
\* the second one is a coroutine being awaited, and a third event waits in the queue.
C3_Witness ==
    /\ ndispatched = 2
    /\ Len(invoked) = 2
    /\ running # 0
    /\ queue # <<>>

(***************************************************************************)
(* Claims about the runner (checked under Spec)                            *)
(***************************************************************************)
\* Positions in pending of the events of run r whose type is in T.
EventsOf(r, T) == {i \in 1..Len(pending) : pending[i].run = r /\ pending[i].type \in T}

\* The entry of run r has returned or raised.
PastEntry(r) == wpc[r] \in {"ct_check", "ct_cancel", "ct_clear", "cleanup", "dead"}

\* The Timer of run r can still call _on_timeout.
TimerPending(r) == tpc[r] \in {"created", "armed"} /\ ~tcancelled[r]

\* C4: if every unit run so far ends within the join wait once its token is set,
\* at most one worker thread is alive at any time, and a worker is started only
\* after every earlier worker has exited.
C4_AtMostOneWorkerAlive ==
    (\A r \in 1..nruns : kind[r] # "hang") =>
      /\ Cardinality({r \in Runs : Alive(r)}) <= 1
      /\ \A q \in Runs, r \in Runs : (q < r /\ wpc[r] # "none") => wpc[q] = "dead"

\* A cooperative unit was running when run_app was called again: stop set its
\* token, the join saw it exit, and the second worker is alive.
C4_Witness ==
    /\ nruns = 2
    /\ kind[1] # "hang"
    /\ kind[2] # "hang"
    /\ stopSet[1]
    /\ wpc[1] = "dead"
    /\ Alive(2)

\* C5: every run_app call returns and has started a new worker, whatever the
\* units do.
C5_RunAppAlwaysStartsWorker ==
    (top = "run_app" /\ lpc = "idle") =>
      /\ result = "returned"
      /\ r_thread # 0
      /\ wpc[r_thread] # "none"

\* C6: every started worker publishes exactly one started event; once its entry
\* has returned or raised exactly one terminal event of that run is published, a
\* finished event if it returned and an error event if it raised, never both; no
\* terminal event is published before the entry ended, and none ahead of the run's
\* started event.
C6_OneStartedOneTerminal ==
    \A r \in Runs :
      /\ Cardinality(EventsOf(r, {APP_STARTED})) =
           (IF wpc[r] \in {"none", "start"} THEN 0 ELSE 1)
      /\ Cardinality(EventsOf(r, {APP_FINISHED, APP_ERROR})) =
           (IF PastEntry(r) THEN 1 ELSE 0)
      /\ PastEntry(r) <=> outcome[r] # "none"
      /\ outcome[r] = "returned" => EventsOf(r, {APP_ERROR}) = {}
      /\ outcome[r] = "raised" => EventsOf(r, {APP_FINISHED}) = {}
      /\ \A i \in EventsOf(r, {APP_STARTED}), j \in EventsOf(r, {APP_FINISHED, APP_ERROR}) :
           i < j

\* One run returned and another raised; each has its started and its terminal event.
C6_Witness ==
    /\ Len(pending) = 4
    /\ \E q \in Runs, r \in Runs : outcome[q] = "returned" /\ outcome[r] = "raised"

\* C7: when the entry of run r raises, the worker publishes exactly one error event
\* carrying the unit id and the message and no finished event; the step changes
\* nothing of the loop thread or of the bus consumer; once that worker has exited
\* is_running is false while it is the current thread; and a run_app call made then
\* stops nothing and goes straight to starting the new worker for the unit it was
\* called with.
C7_RaiseIsContained ==
    [][\A r \in Runs :
         outcome'[r] = "raised" =>
           /\ Cardinality(EventsOf(r, {APP_ERROR})') = 1
           /\ \A i \in EventsOf(r, {APP_ERROR})' :
                /\ DOMAIN pending'[i].payload = {"app_name", "error"}
                /\ pending'[i].payload["app_name"] = app'[r]
           /\ EventsOf(r, {APP_FINISHED})' = {}
           /\ outcome[r] # "raised" =>
                UNCHANGED <<lpc, call, top, result, queue, cpc, cur, subscriptions,
                            type_index>>
           /\ (wpc'[r] = "dead" /\ r_thread' = r) => ~is_running'
           /\ (wpc[r] = "dead" /\ r_thread = r /\ lpc = "idle" /\ lpc' # "idle") =>
                lpc' = "ra_77"
           /\ (wpc[r] = "dead" /\ r_thread = r /\ lpc = "ra_77" /\ lpc' # "ra_77") =>
                /\ r_thread' = r + 1
                /\ wpc'[r + 1] = "start"
                /\ app'[r + 1] = call.app
      ]_vars

\* The first unit raised and its worker exited without any stop; run_app was called
\* again and the second worker is started.
C7_Witness ==
    /\ nruns = 2
    /\ outcome[1] = "raised"
    /\ ~stopSet[1]
    /\ r_thread = 2
    /\ wpc[2] # "none"

\* C8: a run whose unit waits on its token and that no stop call touched ends by
\* its timeout: the run's events are started and then finished with reason timeout,
\* after which is_running is false and, when run_app has returned and no later run
\* exists, the runner holds no timer.
C8_TimeoutEndsWaitingUnit ==
    \A r \in Runs :
      (kind[r] = "wait" /\ wpc[r] = "dead" /\ ~stopSet[r]) =>
        /\ \E i \in EventsOf(r, {APP_STARTED}), j \in EventsOf(r, {APP_FINISHED}) :
             /\ i < j
             /\ pending[j].payload["reason"] = "timeout"
        /\ r_thread = r => ~is_running
        /\ (lpc = "idle" /\ r = nruns) => r_timer = 0

\* C9: if the entry of run r was running when the budget of r elapsed and is
\* running still, then once the Timer thread of r is done and no stop call is under
\* way the token of r is set.
C9_ElapsedBudgetSetsOwnToken ==
    \A r \in Runs :
      (elapsedAlive[r] /\ InEntry(r) /\ tpc[r] = "done" /\ lpc = "idle") => token[r]

\* C10: once the worker of run r has exited and run_app has returned, the Timer of
\* r cannot fire any more, and when r is the latest run the timer handle is None.
C10_NoTimerOutlivesItsRun ==
    \A r \in Runs :
      (wpc[r] = "dead" /\ lpc = "idle") =>
        /\ ~TimerPending(r)
        /\ r = nruns => r_timer = 0

\* C11: the Timer of run r sets no token but the one of run r: a step in which the
\* Timer thread of r executes line 150 leaves the token of every other run as it was.
C11_TimerSetsOnlyOwnToken ==
    [][\A r \in Runs :
         (tpc[r] = "fire" /\ tpc'[r] = "done") =>
           \A q \in 0..MaxRuns : q # r => token'[q] = token[q]
      ]_vars

\* C14: when the entry of run r returns, the finished event published for it carries
\* reason timeout if the token of r is set at that moment, whoever set it, and
\* reason normal if it is not; an entry that raises publishes no finished event.
C14_ReasonFromToken ==
    [][\A r \in Runs :
         (wpc[r] = "body" /\ wpc'[r] # "body") =>
           IF outcome'[r] = "returned"
           THEN /\ Len(pending') = Len(pending) + 1
                /\ Last(pending').type = APP_FINISHED
                /\ Last(pending').run = r
                /\ Last(pending').payload["reason"] =
                     (IF token[r] THEN "timeout" ELSE "normal")
           ELSE EventsOf(r, {APP_FINISHED})' = {}
      ]_vars

\* Two finished events are published: one of a run whose token stop set, with
\* reason timeout, and one of a run whose token nobody has set, with reason normal.
C14_Witness ==
    /\ \E i \in 1..Len(pending) :
         /\ pending[i].type = APP_FINISHED
         /\ pending[i].payload["reason"] = "timeout"
         /\ stopSet[pending[i].run]
    /\ \E i \in 1..Len(pending) :
         /\ pending[i].type = APP_FINISHED
         /\ pending[i].payload["reason"] = "normal"
         /\ ~token[pending[i].run]

\* C13: a stop call made while a unit that observes its token is running returns
\* with that unit's token set, its Timer unable to fire, is_running false and the
\* timer handle None; a stop call made while no unit is running changes nothing.
C13_StopStopsAndClears ==
    [][/\ (top = "stop" /\ lpc # "idle" /\ lpc' = "idle" /\ kind[r_thread] # "hang") =>
            /\ result' = "returned"
            /\ token'[r_thread]
            /\ ~TimerPending(r_thread)'
            /\ ~is_running'
            /\ r_timer' = 0
       /\ (lpc = "idle" /\ lpc' = "idle" /\ top' = "stop" /\ <<top, result>>' # <<top, result>>) =>
            UNCHANGED <<busVars, fieldVars, runVars, wpc, token, timerVars>>
      ]_vars

\* C12: once the worker of run r has exited, whichever way the run ended, no
\* subscription created through the capability object of run r is registered in
\* the bus (neither in the subscription table nor in the per-type index), so that
\* no event dispatched from then on reaches a handler of the unit.
C12_NoSubscriptionOutlivesItsRun ==
    \A r \in Runs :
      wpc[r] = "dead" =>
        \A s \in 1..MaxSubs :
          owner[s] = r =>
            /\ s \notin DOMAIN subscriptions
            /\ \A t \in EventTypes : s \notin Range(type_index[t])

(***************************************************************************)
(* Claims about the Launcher (checked under LauncherSpec and BridgeSpec)   *)
(***************************************************************************)
\* The positions in buslog of the events of types T that run r published.
LogPos(r, T) == {j \in 1..Len(buslog) : buslog[j].run = r /\ buslog[j].type \in T}

\* Everything run r publishes has been put on the queue and its worker is gone.
Settled(r) ==
    /\ wpc[r] = "dead"
    /\ \A j \in 1..Len(pending) : pending[j].run # r

\* C15: for every go event the consumer took while the selector value v was
\* mapped to a unit U and no unit was running: launch-requested(switch_value = v)
\* is the next lifecycle event put on the bus; the events of the run it starts come
\* after it, started(U) before the terminal event; when the unit returned without
\* having been stopped its finished event names U with reason normal, and once the
\* run has settled started(U) and that finished event are on the bus; and the
\* cleanup for that run's terminal event does not run while the unit can still
\* write on the screen.
C15_GoPressRunsUnit ==
    \A i \in 1..Len(golog) :
      LET g == golog[i]
          U == get_app_for_switch(g.switch_value)
          r == g.run
      IN (U # None /\ g.idle) =>
           /\ Len(buslog) > g.at
           /\ buslog[g.at + 1] = launch_requested(g.switch_value)
           /\ \A j \in LogPos(r, {APP_STARTED, APP_FINISHED, APP_ERROR}) : j > g.at + 1
           /\ \A j \in LogPos(r, Terminal) : \E k \in LogPos(r, {APP_STARTED}) : k < j
           /\ \A j \in LogPos(r, {APP_STARTED}) : buslog[j].payload["app_name"] = U
           /\ (outcome[r] = "returned" /\ ~stopSet[r]) =>
                 /\ \A j \in LogPos(r, Terminal) :
                      buslog[j] = finished_event_normal(U, FALSE, r)
                 /\ Settled(r) =>
                      /\ Cardinality(LogPos(r, {APP_STARTED})) = 1
                      /\ Cardinality(LogPos(r, Terminal)) = 1
           /\ restoreAt[r] # <<>> => ~InEntry(r)

\* C16: a step in which the consumer takes a go event while the selector value has
\* no mapped unit puts launch-requested with that value on the bus and the
\* "no unit" message on the screen and changes nothing else: the loop is idle
\* again (neither stop nor run_app was entered), Runner, workers, tokens and Timers
\* are as before, nothing is handed to the loop (no error event), and the go
\* handler stays subscribed.
C16_UnmappedGoPressOnlyReports ==
    [][(Len(golog') = Len(golog) + 1 /\ get_app_for_switch(switch_val) = None) =>
         /\ buslog' = Append(buslog, launch_requested(switch_val))
         /\ Last(queue') = launch_requested(switch_val)
         /\ screen' = <<"no_app">>
         /\ lpc' = "idle"
         /\ go_sub'
         /\ UNCHANGED <<call, top, fieldVars, runVars, wpc, token, timerVars, histVars,
                        pending, apiVars, switch_val, display, leds, led_states>>
      ]_vars

\* The consumer takes the event at the head of the queue, of a type in T, in this
\* step (a publish that removes the head hands an event over; this step does not).
Takes(T) ==
    /\ lpc = "idle"
    /\ queue # <<>>
    /\ Head(queue).type \in T
    /\ queue' # queue
    /\ pending' = pending

\* C17: a step in which the consumer takes a selector-change event while no unit
\* is running leaves the event's new value on the numeric display and
\* display-updated with that value as the newest event of the queue; taken while
\* a unit is running, it leaves the numeric display as it was.
C17_SwitchShownOnlyWhenIdle ==
    [][Takes({SWITCH_CHANGED}) =>
         IF ~is_running
         THEN /\ display' = Head(queue).payload.new_value
              /\ Last(queue') = display_updated(Head(queue).payload.new_value)
         ELSE display' = display
      ]_vars

\* A unit is running, the selector has moved to 8, its event has been handled (it
\* is neither waiting nor dropped) and the display still shows 7.
C17_Witness ==
    /\ is_running
    /\ InEntry(r_thread)
    /\ nsw = 1
    /\ switch_val = 8
    /\ display = 7
    /\ ndropped = 0
    /\ \A i \in 1..Len(pending) : pending[i].type # SWITCH_CHANGED
    /\ \A i \in 1..Len(queue) : queue[i].type # SWITCH_CHANGED

\* The loop has nothing left to do: no handler is running, no event is queued and
\* no publish is waiting for the loop.
Quiescent == lpc = "idle" /\ queue = <<>> /\ pending = <<>>

\* _post_app_cleanup ran for the terminal event of run r and left the screen
\* blank, every LED off and the display at the selector value of that moment.
Restored(r) ==
    /\ restoreAt[r] # <<>>
    /\ restoreAt[r][1].screen = <<"blank">>
    /\ \A c \in Colours : ~restoreAt[r][1].leds[c]
    /\ restoreAt[r][1].display = restoreAt[r][1].switch_val

\* C18 as stated: every run whose entry returned or raised has had its idle
\* restore by the time the loop has nothing left to do.
C18_EveryRunIsRestored ==
    \A r \in Runs : (outcome[r] # "none" /\ Quiescent) => Restored(r)

\* C18, amended: every run whose entry returned or raised, and whose terminal
\* event was not removed from a full queue by a later publish, has had its idle
\* restore (screen blank, every LED off, display at the selector value read by
\* the restore) by the time the loop has nothing left to do.
C18_RunIsRestoredUnlessDropped ==
    \A r \in Runs :
      (outcome[r] # "none" /\ ~termDropped[r] /\ Quiescent) => Restored(r)

\* A run launched at selector value 7 is over and restored, the selector having
\* moved to 8 before the restore read it.
C18_Witness ==
    /\ Quiescent
    /\ outcome[1] # "none"
    /\ ~termDropped[1]
    /\ Restored(1)
    /\ golog[1].switch_value = 7
    /\ restoreAt[1][1].switch_val = 8

C20_PressForwardedOnlyWhenLedOn ==
    \A i \in 1..Len(presses) : presses[i].forwarded => presses[i].led

(***************************************************************************)
(* Claims about publish_threadsafe (checked under ThreadSpec)               *)
(***************************************************************************)
\* The events published and not yet taken by the consumer, oldest first: those on
\* the queue, then those whose publish coroutine has not run yet.
Waiting == queue \o pending

\* C21: every event handed to publish_threadsafe by a non-loop thread is put on the
\* bus's queue by the loop and, unless the overflow handling removes it, taken by the
\* consumer exactly once (published = waiting + removed + taken, and no waiting
\* event has been taken before); for the event being dispatched every registered
\* matching subscription the for loop has gone through was called exactly once and
\* none twice; and two events published by the same thread wait, and so are
\* dispatched, in the order that thread published them.
C21_ThreadsafeOnceInOrder ==
    /\ nevents = Len(Waiting) + ndropped + ndispatched
    /\ \A i \in 1..Len(Waiting) : Waiting[i].id > lastDispatched
    /\ \A i, j \in 1..Len(Waiting) :
         (i < j /\ Waiting[i].run = Waiting[j].run) => Waiting[i].id < Waiting[j].id
    /\ cur # <<>> => cur[1].id = lastDispatched /\ cur[1].run \in Threads
    /\ InvokedAll
    /\ \A s \in 1..nsubs : Count(invoked, s) <= 1
    /\ (pending = <<>> /\ queue = <<>> /\ cpc = "get") => ndispatched + ndropped = nevents

\* Thread 1 published, then thread 2 twice: the first event has been dispatched,
\* the second is being dispatched to a subscriber and the third waits; none was
\* removed by overflow.
C21_Witness ==
    /\ nevents = 3
    /\ ndropped = 0
    /\ ndispatched = 2
    /\ cur # <<>>
    /\ cur[1].run = 2
    /\ invoked # <<>>
    /\ Len(Waiting) = 1
    /\ Waiting[1].run = 2

(***************************************************************************)
(* Claims about the threads that touch the bus (checked under ApiSpec)      *)
(***************************************************************************)
\* A step taken by the worker thread of run r: the thread exists, and its position
\* or the sub_id list of its capability object changes.
WorkerStep(r) ==
    /\ wpc[r] \notin {"none", "dead"}
    /\ wpc'[r] # wpc[r] \/ sub_ids'[r] # sub_ids[r]

\* C22: no step of a worker thread changes the bus's subscription tables or its
\* queue: a worker reaches the bus only by handing events to publish_threadsafe.
C22_WorkerLeavesBusTablesAlone ==
    [][(\E r \in Runs : WorkerStep(r)) =>
         /\ subscriptions' = subscriptions
         /\ type_index' = type_index
         /\ queue' = queue]_vars

(***************************************************************************)
(* Claims about filters and unsubscribe (checked under BusSpec)             *)
(***************************************************************************)
\* Every key/value pair of the filter fd equals the payload's value for that key,
\* the payload's value for a key it does not have being None (dict.get); a
\* subscription without a filter dict has no pair to compare.
FilterPairsEqual(ev, fd) ==
    \A i \in 1..Len(fd) : \A k \in DOMAIN fd[i] :
       (IF k \in DOMAIN ev.payload THEN ev.payload[k] ELSE None) = fd[i][k]

\* The step in which the for loop of _dispatch deals with the next sub_id.
ForLoopStep ==
    /\ cpc = "dispatch"
    /\ running = 0
    /\ idx < Len(snap)
    /\ invoked' # invoked \/ idx' # idx

\* C23: when the consumer takes an event, the subscriptions its dispatch goes
\* through are exactly the registered ones of the event's type; the handler of each
\* of them that is still registered when its turn comes is called if and only if
\* every key/value pair of its filter equals the payload's value for that key, and
\* is skipped otherwise; so an event with no matching subscription causes no
\* handler call, and in no case does publish or the consumer fail.
C23_InvokedIffTypeAndFilterMatch ==
    [][/\ ndispatched' = ndispatched + 1 =>
            LET ev == Head(queue)
                S == {s \in DOMAIN subscriptions : subscriptions[s].event_type = ev.type}
            IN /\ invoked' = <<>>
               /\ S = {} => cpc' = "get" /\ cur' = <<>>
               /\ S # {} => /\ cpc' = "dispatch"
                            /\ cur' = <<ev>>
                            /\ Range(snap') = S
                            /\ Len(snap') = Cardinality(S)
       /\ ForLoopStep =>
            LET s == snap[idx + 1]
                match == /\ s \in DOMAIN subscriptions
                         /\ subscriptions[s].event_type = cur[1].type
                         /\ FilterPairsEqual(cur[1], subscriptions[s].filter_dict)
            IN /\ match => invoked' = Append(invoked, s)
               /\ ~match => invoked' = invoked /\ idx' = idx + 1
       /\ ~ForLoopStep => invoked' = invoked \/ invoked' = <<>>
       /\ ~publishRaised'
       /\ cpc' \in {"get", "dispatch"}]_vars

\* An event is being dispatched; the for loop has gone through a registered
\* subscription whose filter the payload does not satisfy and has not called it,
\* and it has called another subscription of the same type.
C23_Witness ==
    /\ cur # <<>>
    /\ \E k \in 1..idx :
         /\ snap[k] \in DOMAIN subscriptions
         /\ ~FilterPairsEqual(cur[1], subscriptions[snap[k]].filter_dict)
         /\ Count(invoked, snap[k]) = 0
    /\ invoked # <<>>

\* The sequence q without the entries equal to x.
Without(q, x) == SelectSeq(q, LAMBDA y : y # x)

\* What unsubscribe(sub_id) makes of the tables as they are, for a known id: the
\* subscription is gone, a second call changes nothing more, and every other
\* subscription and the order of the other sub_ids of every type are as before;
\* for an unknown or already removed id: the tables are as before.
UnsubscribeAt(sub_id) ==
    LET st == unsubscribe(Tables, sub_id)
    IN /\ sub_id \notin DOMAIN st.subs
       /\ unsubscribe(st, sub_id) = st
       /\ sub_id \notin DOMAIN subscriptions => st = Tables
       /\ DOMAIN st.subs = DOMAIN subscriptions \ {sub_id}
       /\ \A o \in DOMAIN st.subs : st.subs[o] = subscriptions[o]
       /\ \A t \in EventTypes : Without(st.index[t], sub_id) = Without(type_index[t], sub_id)
       /\ \A t \in EventTypes : \A o \in DOMAIN st.subs :
            Count(st.index[t], o) = Count(type_index[t], o)

\* C24: in every state, unsubscribe of any id (registered, already removed, or
\* never handed out) removes that subscription if it is there, changes nothing
\* when called again or for an unknown id, and leaves the other subscriptions and
\* their registration order as they were; and from the call on the handler of a
\* removed subscription is never called again, also for an event whose dispatch
\* had begun before the call.
C24_UnsubscribeIdempotent ==
    /\ [](\A sub_id \in 0..MaxSubs : UnsubscribeAt(sub_id))
    /\ [][\A sub_id \in 1..nsubs :
            sub_id \notin DOMAIN subscriptions =>
              /\ sub_id \notin DOMAIN subscriptions'
              /\ Count(invoked', sub_id) <= Count(invoked, sub_id)
              /\ lastEv'[sub_id] = lastEv[sub_id]]_vars

\* A subscription whose handler had been called for an event and never raised has
\* been removed by unsubscribe; a later event has been dispatched to the end, and
\* the handler of another subscription, registered after the removed one, was called.
C24_Witness ==
    \E sub_id \in 1..nsubs :
      /\ sub_id \notin DOMAIN subscriptions
      /\ raisedOn[sub_id] = <<>>
      /\ lastEv[sub_id] > 0
      /\ cur # <<>>
      /\ cur[1].id > lastEv[sub_id]
      /\ idx >= Len(snap)
      /\ \E o \in DOMAIN subscriptions : o > sub_id /\ Count(invoked, o) = 1

(***************************************************************************)
(* Claims about the catalog (checked under ScanSpec)                        *)
(***************************************************************************)
\* The manager's two dicts as they are.
Manager == [manifests |-> manifests, switch_map |-> switch_map]

FileEntries == IF mappings_file.exists THEN raw_items(mappings_file) ELSE <<>>

\* Entry i of the file has a key that parses as an integer and names a unit that
\* is in the catalog.
Qualifies(i) ==
    /\ py_int(FileEntries[i].key) # <<>>
    /\ FileEntries[i].app_name \in DOMAIN manifests

\* Every key of the switch map comes from a qualifying entry of the file, and
\* resolve gives none for every other value.
OnlyQualifying ==
    /\ \A k \in DOMAIN switch_map :
         \E i \in 1..Len(FileEntries) :
            /\ Qualifies(i)
            /\ py_int(FileEntries[i].key)[1] = k
            /\ FileEntries[i].app_name = switch_map[k]
    /\ \A v \in -1..256 :
         (\A i \in 1..Len(FileEntries) : Qualifies(i) => py_int(FileEntries[i].key)[1] # v)
           => resolve(switch_map, v) = <<>>

HasValidDescriptor(u) ==
    /\ apps_dir[u].json = "object"
    /\ validates(migrate_manifest_v2(apps_dir[u]))

\* C27: a scan returns, and after it the catalog holds exactly the units whose
\* descriptor is valid, each with its own descriptor: a descriptor that does not
\* parse or does not validate keeps only its own unit out, whatever its place
\* among the directories.
C27_InvalidDescriptorExcludesOnlyItself ==
    in_sync =>
      /\ DOMAIN manifests = {u \in Range(UnitDirs) : HasValidDescriptor(u)}
      /\ \A u \in DOMAIN manifests : manifests[u] = AppManifest(migrate_manifest_v2(apps_dir[u]))

\* After a scan: the first directory has a manifest.json that does not load, the
\* second a valid one, and the catalog holds the second unit only.
C27_Witness ==
    /\ in_sync
    /\ apps_dir["A"].json # "none"
    /\ ~HasValidDescriptor("A")
    /\ HasValidDescriptor("B")
    /\ DOMAIN manifests = {"B"}

\* The mappings file as it is, with its mapping given unwrapped.
Unwrapped ==
    [exists |-> mappings_file.exists, wrapped |-> FALSE,
     entries |-> unwrapped_items(mappings_file)]

\* C28: after a scan the switch map, and so every resolve result, is what the scan
\* makes of the same mapping given without the envelope.
C28_EnvelopeSameAsPlain ==
    in_sync =>
      /\ switch_map = load_mappings(Unwrapped, manifests)
      /\ \A v \in -1..256 : resolve(switch_map, v) = resolve(load_mappings(Unwrapped, manifests), v)

\* C29: every key of the switch map is an integer selector value, 0 to 255,
\* whatever keys the mappings file holds.
C29_KeysInSelectorRange ==
    \A k \in DOMAIN switch_map : k \in 0..255

\* C30: a manifest.json whose timeout_seconds is below 1 second does not validate
\* as it stands; after a scan no directory whose manifest, as handed to the
\* validation, has a timeout below 1 second is in the catalog; every manifest of
\* the catalog has timeout_seconds >= 1, and so has every Timer armed for a launch.
C30_TimeoutAtLeastOneSecond ==
    /\ \A u \in Range(UnitDirs) :
         (apps_dir[u].json = "object" /\ apps_dir[u].timeout # <<>> /\ apps_dir[u].timeout[1] < 10)
           => ~validates(apps_dir[u])
    /\ in_sync =>
         \A u \in Range(UnitDirs) :
           LET raw == migrate_manifest_v2(apps_dir[u])
           IN (apps_dir[u].json = "object" /\ raw.timeout # <<>> /\ raw.timeout[1] < 10)
                => u \notin DOMAIN manifests
    /\ \A u \in DOMAIN manifests : manifests[u].timeout_seconds >= 1
    /\ timer_budget # <<>> => timer_budget[1] >= 1

\* A unit was launched and its Timer armed; then its manifest.json was given the
\* timeout 0, and after the re-scan the unit is not in the catalog.
C30_Witness ==
    /\ in_sync
    /\ apps_dir["A"] = Manifest(<<0>>, "return", "")
    /\ "A" \notin DOMAIN manifests
    /\ timer_budget # <<>>

(***************************************************************************)
(* Claims about the threads that touch the Runner's fields (checked under  *)
(* Spec)                                                                   *)
(***************************************************************************)
\* A step taken by the Timer thread of run r: its position changes.
TimerStep(r) == tpc[r] \in {"armed", "fire"} /\ tpc'[r] # tpc[r]

\* C31: the four fields of the Runner (_thread, _stop_event, _timer, _app_name) are
\* written by the loop thread, which runs run_app and stop, and by no other: no
\* step of a worker thread or of a Timer thread changes any of them.
C31_FieldsWrittenByLoopThreadOnly ==
    [][(\E r \in Runs : WorkerStep(r) \/ TimerStep(r)) =>
         /\ r_thread' = r_thread
         /\ r_stop_event' = r_stop_event
         /\ r_timer' = r_timer
         /\ r_app_name' = r_app_name]_vars

(***************************************************************************)
(* Claims about the Launcher's handlers (checked under LauncherSpec)       *)
(***************************************************************************)
\* C32: the Launcher's go handler stays subscribed whatever go presses, selector
\* changes and unit outcomes there are, and every go event the consumer takes is
\* handled by it.
C32_GoHandlerStaysSubscribed ==
    /\ go_sub
    /\ \A i \in 1..Len(golog) : golog[i].handled

\* C33: the step in which _post_app_cleanup runs for the terminal event of run r
\* (screen cleared, every LED off, display rewritten) is taken only while no run
\* launched after r has a live worker: the cleanup for a replaced unit does not
\* wipe what the unit that replaced it shows.
C33_CleanupOnlyWithNoLaterRun ==
    [][\A r \in Runs :
         restoreAt'[r] # restoreAt[r] => \A r2 \in Runs : r2 > r => ~Alive(r2)]_vars

\* Run r was stopped by stop() and run r + 1 was started in its place.
Replaced(r) == r + 1 \in Runs /\ stopSet[r] /\ nruns > r

\* The consumer takes the started event of run r from the head of the queue.
TakesStarted(r) ==
    /\ lpc = "idle"
    /\ queue # <<>>
    /\ Head(queue).type = APP_STARTED
    /\ Head(queue).run = r
    /\ queue' = Tail(queue)

\* A's terminal event is put on the queue before B's started event.
TerminalEnqueuedFirst ==
    \A r \in Runs :
      Replaced(r) =>
        \A j \in LogPos(r + 1, {APP_STARTED}) : \E k \in LogPos(r, Terminal) : k < j

\* C34 as stated: when run r was replaced by run r + 1, the terminal event of r is
\* on the queue before the started event of r + 1, and it has been dispatched (its
\* cleanup has run) by the time the consumer takes that started event.
C34_TerminalDispatchedBeforeNextStarted ==
    /\ []TerminalEnqueuedFirst
    /\ [][\A r \in Runs :
            (Replaced(r) /\ TakesStarted(r + 1)) => restoreAt[r] # <<>>]_vars

\* C34, amended: when run r, whose worker exits within the joins of stop and
\* run_app, was replaced by run r + 1, the terminal event of r is on the queue
\* before the started event of r + 1, and it has been dispatched by the time the
\* consumer takes that started event unless a publish removed it from the full
\* queue before.
C34_TerminalFirstUnlessDropped ==
    /\ []TerminalEnqueuedFirst
    /\ [][\A r \in Runs :
            (Replaced(r) /\ TakesStarted(r + 1)) => restoreAt[r] # <<>> \/ termDropped[r]]_vars

\* Run 1 was stopped and replaced by run 2; both its terminal event and the
\* started event of run 2 have been dispatched, nothing having been removed from
\* the queue.
C34_Witness ==
    /\ Replaced(1)
    /\ ndropped = 0
    /\ restoreAt[1] # <<>>
    /\ LogPos(2, {APP_STARTED}) # {}
    /\ \A i \in 1..Len(queue) : queue[i].run # 2

\* C35: whenever no unit is running and every event published so far has been
\* dispatched (the loop has nothing left to do: no handler running, no event
\* queued, no publish waiting; and no event was removed from a full queue), the
\* numeric display shows the value the selector has.
C35_IdleDisplayShowsSelector ==
    (~is_running /\ Quiescent /\ ndropped = 0) => display = switch_val

(***************************************************************************)
(* Claims about a dispatch in progress (checked under BusSpec)             *)
(***************************************************************************)
\* The handler of sub_id s is called in this step.
InvokedNow(s) == Count(invoked', s) > Count(invoked, s)

\* C36: the subscriptions a dispatch can call are fixed when the consumer takes
\* the event: they are subscriptions registered at that moment, and the list is
\* not extended while the event is being dispatched, so that a subscription
\* registered during the dispatch is outside it and is not called for the event;
\* and a handler is called only at its turn and only when its subscription is
\* still registered then, so that one removed before its turn is not called.
C36_DispatchSeesNoLateAndNoRemoved ==
    /\ [](cur # <<>> => \A s \in Range(invoked) : s \in Range(snap))
    /\ [][/\ ndispatched' = ndispatched + 1 =>
               \A i \in 1..Len(snap') : snap'[i] \in DOMAIN subscriptions
          /\ (cur # <<>> /\ cur' # <<>>) => cur' = cur /\ snap' = snap
          /\ \A s \in 1..MaxSubs :
               (cur # <<>> /\ s \notin DOMAIN subscriptions /\ s \in DOMAIN subscriptions') =>
                  /\ s \notin Range(snap')
                  /\ ~InvokedNow(s)
          /\ \A s \in 1..MaxSubs :
               InvokedNow(s) =>
                  /\ cur # <<>>
                  /\ idx < Len(snap)
                  /\ s = snap[idx + 1]
                  /\ s \in DOMAIN subscriptions]_vars

\* The dispatch of an event of type "a" has gone through its list: the one
\* subscription of the list was removed before its turn and was not called, and a
\* subscription to "a" without filter that was registered during the dispatch is
\* registered and was not called either.
C36_Witness ==
    /\ cur # <<>>
    /\ cur[1].type = "a"
    /\ snap = <<1>>
    /\ idx = 1
    /\ invoked = <<>>
    /\ raisedOn[1] = <<>>
    /\ 1 \notin DOMAIN subscriptions
    /\ 2 \in DOMAIN subscriptions
    /\ subscriptions[2] = [event_type |-> "a", filter_dict |-> <<>>]

(***************************************************************************)
(* Claims about a scan that raises (checked under RescanSpec)              *)
(***************************************************************************)
\* A scan_apps call ends in this step without having returned.
ScanRaisesNow == nscans' = nscans + 1 /\ load_mappings_raises(mappings_file)

\* C37: a scan_apps call that raises leaves the catalog and the switch map as they
\* were before the call, and in every state every unit named by the switch map
\* has a manifest in the catalog.
C37_ScanAllOrNothing ==
    /\ [](\A k \in DOMAIN switch_map : switch_map[k] \in DOMAIN manifests)
    /\ [][ScanRaisesNow => manifests' = manifests /\ switch_map' = switch_map]_vars

\* The two fields claim C38 speaks of, as the claim gives them for the raw
\* descriptor raw (timeouts in tenths of a second: 6000 is 600 s, 9000 is 900 s).
NormalisedTimeout(raw) ==
    IF raw.behavior \in {"none", "rerun"}
    THEN IF raw.timeout = <<>> \/ raw.timeout[1] < 6000 THEN <<9000>> ELSE raw.timeout
    ELSE raw.timeout
NormalisedBehavior(raw) == IF raw.behavior \in {"none", "rerun"} THEN "return" ELSE raw.behavior

\* C38: descriptor migration normalises deprecated timeout behaviour.  For a raw
\* descriptor whose timeout is absent or a number: when its timeout_behavior is
\* "none" or "rerun" the result has timeout_behavior "return" and timeout_seconds
\* 900 if the timeout was absent or below 600, the original timeout otherwise;
\* for every other descriptor both fields are those of the input; the result is
\* another dict than the argument and the caller's dict still has the content it
\* was built with; the result of migrating the result equals the result.
C38_MigrationNormalisesTimeouts ==
    /\ mig_heap[1] = mig_in
    /\ \A i \in 1..Len(mig_res) :
          /\ mig_res[i] # (IF i = 1 THEN 1 ELSE mig_res[i - 1])
          /\ mig_heap[mig_res[i]].behavior = NormalisedBehavior(mig_in)
          /\ mig_heap[mig_res[i]].timeout = NormalisedTimeout(mig_in)
          /\ mig_heap[mig_res[i]] = mig_heap[mig_res[1]]

\* A descriptor with timeout_behavior "rerun" and a timeout of 599.5 s has been
\* migrated twice: both results say "return" and 900 s, the input still says
\* "rerun" and 599.5 s.
C38_Witness ==
    /\ Len(mig_res) = 2
    /\ mig_in = Manifest(<<5995>>, "rerun", "external_apis")
    /\ mig_heap[mig_res[2]] = Manifest(<<9000>>, "return", "")
    /\ mig_heap[1].timeout = <<5995>>

\* A descriptor with timeout_behavior "none" and a timeout of exactly 600 s has
\* been migrated: the timeout stays 600 s.
C38_WitnessAtThreshold ==
    /\ Len(mig_res) >= 1
    /\ mig_in = Manifest(<<6000>>, "none", "")
    /\ mig_heap[mig_res[1]] = Manifest(<<6000>>, "return", "")

====
